---------------------------- MODULE Spec2Model ----------------------------
(***************************************************************************)
(* The AniList client of aniq (lib/anilist): the rate-limit governor, the  *)
(* rate-limited request wrapper, the two cached fetchers and the question  *)
(* assembler getQuestionCharacters.                                        *)
(*                                                                         *)
(* JavaScript runs one task at a time: a step of the model is everything   *)
(* an async function does between two awaits of the network (or of the     *)
(* reachability probe), or one timer callback.  The clock `now` is         *)
(* Date.now() in milliseconds; timers fire no earlier than their due time  *)
(* and possibly later.                                                     *)
(*                                                                         *)
(* A value of type `T | null` is <<>> for null and <<v>> for the value v.  *)
(* A header that is present is given by the integer parseInt reads from    *)
(* its decimal text.                                                       *)
(***************************************************************************)
EXTENDS Integers, Sequences, FiniteSets, Bags, TLC

Null == <<>>
Some(v) == <<v>>

Max(a, b) == IF a >= b THEN a ELSE b
Min(a, b) == IF a <= b THEN a ELSE b

\* Math.floor(Date.now() / 1000) for the clock value t (milliseconds)
Seconds(t) == t \div 1000

---------------------------------------------------------------------------
(* Bounds of the model *)

\* invocations started in one behaviour
MaxCalls == 2
\* pause timers pending at once
MaxPauseTimers == 2
\* the clock visits the seconds 0..MaxSec and 60..60+MaxSec
MaxSec == 1
\* anime ids 1..MaxAnime
MaxAnime == 4

\* processes (concurrent invocations of the exported functions)
Procs == { 1, 2 }
AnimeIds == 1..MaxAnime

---------------------------------------------------------------------------
(* Program constants *)

ACTUAL_RATE_LIMIT_PER_MINUTE == 30
RATE_LIMIT_MAX == ACTUAL_RATE_LIMIT_PER_MINUTE
maxAttempts == 3

---------------------------------------------------------------------------
(* State *)

VARIABLES
  now,                            \* Date.now(), milliseconds
  remainingRequests,
  retryAfterTimestamp,            \* number | null, seconds
  rateLimitWindowStartTimestamp,  \* number | null, seconds
  rateLimitResetTimer,            \* the handle of the 60 s timer set last (the time
                                  \* it is due), or null
  resetTimers,                    \* bag of due times of the pending 60 s timers
  pauseTimers,                    \* bag of due times of the timers of setRateLimitPause
  topAnimeIdsCache,               \* Map<number, number[]>, as a set of <<key, value>>
  animeDetailsCache,              \* Map<number, AnimeDetails>, as a set of <<key, value>>
  proc,                           \* the activation of each running invocation
  calls,                          \* invocations started so far
  fired,                          \* the timer callback run by the last step, or "none"
  game                            \* the state of the Game component, null while
                                  \* it is not mounted

govVars == <<remainingRequests, retryAfterTimestamp, rateLimitWindowStartTimestamp,
             rateLimitResetTimer, resetTimers, pauseTimers>>
cacheVars == <<topAnimeIdsCache, animeDetailsCache>>
vars == <<now, govVars, cacheVars, proc, calls, fired, game>>

\* the governor's module variables as one value
Gov ==
  [ remainingRequests |-> remainingRequests,
    retryAfterTimestamp |-> retryAfterTimestamp,
    rateLimitWindowStartTimestamp |-> rateLimitWindowStartTimestamp,
    rateLimitResetTimer |-> rateLimitResetTimer,
    resetTimers |-> resetTimers,
    pauseTimers |-> pauseTimers ]

SetGov(g) ==
  /\ remainingRequests' = g.remainingRequests
  /\ retryAfterTimestamp' = g.retryAfterTimestamp
  /\ rateLimitWindowStartTimestamp' = g.rateLimitWindowStartTimestamp
  /\ rateLimitResetTimer' = g.rateLimitResetTimer
  /\ resetTimers' = g.resetTimers
  /\ pauseTimers' = g.pauseTimers

Caches == [ top |-> topAnimeIdsCache, det |-> animeDetailsCache ]

SetCaches(c) ==
  /\ topAnimeIdsCache' = c.top
  /\ animeDetailsCache' = c.det

\* Map.has / Map.get / Map.set on a map kept as a set of <<key, value>>
MapHas(m, k) == \E e \in m : e[1] = k
MapGet(m, k) == (CHOOSE e \in m : e[1] = k)[2]
MapSet(m, k, v) == {e \in m : e[1] # k} \cup {<<k, v>>}

---------------------------------------------------------------------------
(* Errors *)

RateLimitError(retryAfterSeconds, resetTimestamp) ==
  [ name |-> "RateLimitError",
    retryAfterSeconds |-> Some(retryAfterSeconds),
    resetTimestamp |-> Some(resetTimestamp),
    status |-> Null, message |-> "Rate limit exceeded" ]

\* an Error (or TypeError) thrown by the code itself
Error(message) ==
  [ name |-> "Error", retryAfterSeconds |-> Null, resetTimestamp |-> Null,
    status |-> Null, message |-> message ]

\* what baseClient.rawRequest rejects with, for the failed response resp
TransportError(resp) ==
  [ name |-> IF resp.kind = "http" THEN "ClientError" ELSE "TypeError",
    retryAfterSeconds |-> Null, resetTimestamp |-> Null,
    status |-> IF resp.kind = "http" THEN Some(resp.status) ELSE Null,
    message |-> resp.kind ]

---------------------------------------------------------------------------
(* The governor *)

\* setRateLimitPause without its setTimeout
setRateLimitPause_NoTimer(g, retryAfterSeconds, t) ==
  [ g EXCEPT !.retryAfterTimestamp = Some(Seconds(t) + retryAfterSeconds) ]

setRateLimitPause(g, retryAfterSeconds, t) ==
  [ g EXCEPT
      !.retryAfterTimestamp = Some(Seconds(t) + retryAfterSeconds),
      !.pauseTimers = @ (+) SetToBag({t + retryAfterSeconds * 1000 + 100}) ]

\* updateRateLimitState without clearTimeout: the handle is overwritten
updateRateLimitState_NoClear(g, headers, t) ==
  LET g1 == IF headers.remaining # Null
            THEN [g EXCEPT !.remainingRequests = Max(0, headers.remaining[1] - 60)]
            ELSE g
  IN IF g1.retryAfterTimestamp = Null
     THEN [g1 EXCEPT !.rateLimitResetTimer = Some(t + 60 * 1000),
                     !.resetTimers = @ (+) SetToBag({t + 60 * 1000})]
     ELSE g1

\* lines 48-74; clearTimeout takes the timer of the handle out of the pending
\* ones
updateRateLimitState(g, headers, t) ==
  LET g1 == IF headers.remaining # Null
            THEN [g EXCEPT !.remainingRequests = Max(0, headers.remaining[1] - 60)]
            ELSE g
      g2 == IF g1.rateLimitResetTimer # Null
            THEN [g1 EXCEPT
                    !.resetTimers = @ (-) SetToBag({g1.rateLimitResetTimer[1]}),
                    !.rateLimitResetTimer = Null]
            ELSE g1
  IN IF g2.retryAfterTimestamp = Null
     THEN [g2 EXCEPT !.rateLimitResetTimer = Some(t + 60 * 1000),
                     !.resetTimers = @ (+) SetToBag({t + 60 * 1000})]
     ELSE g2

getRateLimitStatus ==
  [ remaining |-> remainingRequests, retryUntil |-> retryAfterTimestamp ]


---------------------------------------------------------------------------
(* rateLimitedClient.request *)

\* a response of the network to one call: kind "ok" (rawRequest resolves),
\* "http" (it rejects with a ClientError carrying the response), "network"
\* (it rejects with a TypeError whose message includes NetworkError) or
\* "other" (it rejects with any other error, without a response)
OkResponse(remaining, data) ==
  [ kind |-> "ok", status |-> 200, headers |-> TRUE, remaining |-> remaining,
    reset |-> Null, retryAfter |-> Null, data |-> data ]

HttpError(status, headers, reset, retryAfter) ==
  [ kind |-> "http", status |-> status, headers |-> headers, remaining |-> Null,
    reset |-> reset, retryAfter |-> retryAfter, data |-> Null ]

NoResponse(kind) ==
  [ kind |-> kind, status |-> 0, headers |-> FALSE, remaining |-> Null,
    reset |-> Null, retryAfter |-> Null, data |-> Null ]

Return(v) == [ kind |-> "return", value |-> v ]
Throw(e) == [ kind |-> "throw", value |-> e ]
AwaitProbe(e) == [ kind |-> "probe", value |-> e ]

\* requestBegin recording the window start at every call
requestBegin_EveryCall(g, t) ==
  [g EXCEPT !.rateLimitWindowStartTimestamp = Some(Seconds(t))]

\* lines 109-119: up to the await of rawRequest
requestBegin(g, t) ==
  IF g.remainingRequests = RATE_LIMIT_MAX
  THEN [g EXCEPT !.rateLimitWindowStartTimestamp = Some(Seconds(t))]
  ELSE g

\* requestSucceeded writing the count of a window's first call, whatever the
\* count has become since
requestSucceeded_StaleCount(g, resp, t) ==
  LET g1 == updateRateLimitState(g, resp, t)
  IN [ g |-> [g1 EXCEPT !.remainingRequests =
                IF resp.remaining # Null THEN Max(0, g1.remainingRequests - 1)
                ELSE RATE_LIMIT_MAX - 1],
       res |-> Return(resp.data) ]

\* requestSucceeded counting the call before it reads the header
requestSucceeded_DecrementFirst(g, resp, t) ==
  LET g1 == [g EXCEPT !.remainingRequests = Max(0, g.remainingRequests - 1)]
  IN [ g |-> updateRateLimitState(g1, resp, t), res |-> Return(resp.data) ]

\* requestSucceeded with the decrement not floored at 0
requestSucceeded_NoFloor(g, resp, t) ==
  LET g1 == updateRateLimitState(g, resp, t)
  IN [ g |-> [g1 EXCEPT !.remainingRequests = g1.remainingRequests - 1],
       res |-> Return(resp.data) ]

\* lines 121-129: rawRequest resolved
requestSucceeded(g, resp, t) ==
  LET g1 == updateRateLimitState(g, resp, t)
  IN [ g |-> [g1 EXCEPT !.remainingRequests = Max(0, g1.remainingRequests - 1)],
       res |-> Return(resp.data) ]

\* classify429 with the wait not raised to 1
classify429_NoFloor(headers, t) ==
  IF headers.reset # Null
  THEN [ retrySeconds |-> headers.reset[1] - Seconds(t),
         resetTimestamp |-> headers.reset[1] ]
  ELSE LET retrySeconds == IF headers.retryAfter # Null
                           THEN headers.retryAfter[1] ELSE 60
       IN [ retrySeconds |-> retrySeconds,
            resetTimestamp |-> Seconds(t) + retrySeconds ]

\* classify429 ignoring the retry-after header
classify429_NoRetryAfter(headers, t) ==
  IF headers.reset # Null
  THEN [ retrySeconds |-> Max(1, headers.reset[1] - Seconds(t)),
         resetTimestamp |-> headers.reset[1] ]
  ELSE [ retrySeconds |-> 60, resetTimestamp |-> Seconds(t) + 60 ]

\* lines 140-153: the wait and the reset time of a 429
classify429(headers, t) ==
  IF headers.reset # Null
  THEN [ retrySeconds |-> Max(1, headers.reset[1] - Seconds(t)),
         resetTimestamp |-> headers.reset[1] ]
  ELSE LET retrySeconds == IF headers.retryAfter # Null
                           THEN headers.retryAfter[1] ELSE 60
       IN [ retrySeconds |-> retrySeconds,
            resetTimestamp |-> Seconds(t) + retrySeconds ]

\* requestFailed taking every HTTP error with headers for a throttle
requestFailed_AnyStatus(g, resp, t) ==
  IF resp.kind = "http" /\ resp.status >= 400 /\ resp.headers
  THEN LET c == classify429(resp, t)
       IN [ g |-> setRateLimitPause(g, c.retrySeconds, t),
            res |-> Throw(RateLimitError(c.retrySeconds, c.resetTimestamp)) ]
  ELSE IF resp.kind = "http" /\ resp.status >= 400
  THEN [ g |-> g, res |-> Throw(TransportError(resp)) ]
  ELSE IF resp.kind = "network" /\ g.rateLimitWindowStartTimestamp # Null
  THEN [ g |-> g, res |-> AwaitProbe(TransportError(resp)) ]
  ELSE [ g |-> g, res |-> Throw(TransportError(resp)) ]

\* requestFailed counting the failed call against the budget
requestFailed_CountsFailure(g, resp, t) ==
  LET g1 == [g EXCEPT !.remainingRequests = Max(0, @ - 1)]
  IN IF resp.kind = "http" /\ resp.status = 429 /\ resp.headers
     THEN LET c == classify429(resp, t)
          IN [ g |-> setRateLimitPause(g1, c.retrySeconds, t),
               res |-> Throw(RateLimitError(c.retrySeconds, c.resetTimestamp)) ]
     ELSE IF resp.kind = "http" /\ resp.status >= 400
     THEN [ g |-> g1, res |-> Throw(TransportError(resp)) ]
     ELSE IF resp.kind = "network" /\ g.rateLimitWindowStartTimestamp # Null
     THEN [ g |-> g1, res |-> AwaitProbe(TransportError(resp)) ]
     ELSE [ g |-> g1, res |-> Throw(TransportError(resp)) ]

\* lines 130-219: rawRequest rejected
requestFailed(g, resp, t) ==
  IF resp.kind = "http" /\ resp.status = 429 /\ resp.headers
  THEN LET c == classify429(resp, t)
       IN [ g |-> setRateLimitPause(g, c.retrySeconds, t),
            res |-> Throw(RateLimitError(c.retrySeconds, c.resetTimestamp)) ]
  ELSE IF resp.kind = "http" /\ resp.status >= 400
  THEN [ g |-> g, res |-> Throw(TransportError(resp)) ]
  ELSE IF resp.kind = "network" /\ g.rateLimitWindowStartTimestamp # Null
  THEN [ g |-> g, res |-> AwaitProbe(TransportError(resp)) ]
  ELSE [ g |-> g, res |-> Throw(TransportError(resp)) ]

requestSettled(g, resp, t) ==
  IF resp.kind = "ok" THEN requestSucceeded(g, resp, t) ELSE requestFailed(g, resp, t)

\* requestProbed not looking at the answer of the probe
requestProbed_IgnoreProbe(g, error, online, t) ==
  LET resetTimestamp == g.rateLimitWindowStartTimestamp[1] + 60
      retrySeconds == Max(1, resetTimestamp - Seconds(t))
  IN [ g |-> setRateLimitPause(g, retrySeconds, t),
       res |-> Throw(RateLimitError(retrySeconds, resetTimestamp)) ]

\* requestProbed with the wait not raised to 1
requestProbed_NoFloor(g, error, online, t) ==
  IF online
  THEN LET resetTimestamp == g.rateLimitWindowStartTimestamp[1] + 60
           retrySeconds == resetTimestamp - Seconds(t)
       IN [ g |-> setRateLimitPause(g, retrySeconds, t),
            res |-> Throw(RateLimitError(retrySeconds, resetTimestamp)) ]
  ELSE [ g |-> g, res |-> Throw(error) ]

\* lines 179-207: isInternetWorking() answered
requestProbed(g, error, online, t) ==
  IF online
  THEN LET resetTimestamp == g.rateLimitWindowStartTimestamp[1] + 60
           retrySeconds == Max(1, resetTimestamp - Seconds(t))
       IN [ g |-> setRateLimitPause(g, retrySeconds, t),
            res |-> Throw(RateLimitError(retrySeconds, resetTimestamp)) ]
  ELSE [ g |-> g, res |-> Throw(error) ]

---------------------------------------------------------------------------
(* Activations *)

IdleFrame ==
  [ fn |-> "idle", arg |-> Null, pc |-> "idle", outcome |-> Null,
    error |-> Null,          \* the error caught last (request's or the caller's catch)
    resp |-> Null,           \* the response received last
    nowSec |-> Null,         \* Date.now() in seconds when that response was handled
    netCalls |-> 0,          \* calls of rawRequest made by this invocation
    caught |-> "none",       \* what the catch block of getQuestionCharacters handled
                             \* in the step taken last: "RateLimitError", "other", "none"
    ids |-> <<>>,            \* the variable `ids` of the request issued last
    attempts |-> 0, step |-> "none", poolSize |-> 0,
    animeIds |-> <<>>, selectedAnimeIds |-> <<>>, mediaMap |-> {},
    selectedCharsBase |-> <<>>, originAnimeIds |-> <<>>, titleMap |-> {} ]

\* the activation f issues a call of rateLimitedClient.request for `step`;
\* the response, the time and the error of an earlier call are out of scope
IssueRequest(f, step) ==
  [f EXCEPT !.pc = "awaitNet", !.step = step, !.netCalls = @ + 1,
            !.resp = Null, !.nowSec = Null, !.error = Null]

Finish(f, outcome) ==
  [f EXCEPT !.pc = "done", !.outcome = Some(outcome)]

Returned(f) == f.pc = "done" /\ f.outcome[1].kind = "return"
Thrown(f) == f.pc = "done" /\ f.outcome[1].kind = "throw"
ThrownRateLimit(f) == Thrown(f) /\ f.outcome[1].value.name = "RateLimitError"

---------------------------------------------------------------------------
(* The cached fetchers.  A world is the governor, the caches and one       *)
(* activation; each operator gives the worlds a piece of code may end in.  *)

World(g, c, f) == [ g |-> g, c |-> c, f |-> f ]

\* fetchTopAnimeIds without the look into the cache
fetchTopAnimeIdsBegin_NoCache(g, c, f, count, t) ==
  World(requestBegin(g, t), c, IssueRequest(f, "top"))

\* lines 435-449: fetchTopAnimeIds up to its await
fetchTopAnimeIdsBegin(g, c, f, count, t) ==
  IF MapHas(c.top, count)
  THEN World(g, c, Finish(f, Return(MapGet(c.top, count))))
  ELSE World(requestBegin(g, t), c, IssueRequest(f, "top"))

\* fetchTopAnimeIds without topAnimeIdsCache.set
fetchTopAnimeIdsResume_NoStore(g, c, f, res) ==
  IF res.kind = "throw" THEN World(g, c, Finish(f, res))
  ELSE IF res.value = Null
  THEN World(g, c, Finish(f, Throw(Error("TypeError"))))
  ELSE World(g, c, Finish(f, Return(res.value[1])))

\* lines 450-453: fetchTopAnimeIds after its await; data is data.Page.media
\* mapped to the ids, or null for a body without it
fetchTopAnimeIdsResume(g, c, f, res) ==
  IF res.kind = "throw" THEN World(g, c, Finish(f, res))
  ELSE IF res.value = Null
  THEN World(g, c, Finish(f, Throw(Error("TypeError"))))
  ELSE LET ids == res.value[1]
       IN World(g, [c EXCEPT !.top = MapSet(@, f.arg, ids)], Finish(f, Return(ids)))

\* fetchAnimeDetails on a client that refuses a call during a pause or with
\* no request left
fetchAnimeDetailsBegin_Admission(g, c, f, animeId, t) ==
  IF MapHas(c.det, animeId)
  THEN World(g, c, Finish(f, Return(MapGet(c.det, animeId))))
  ELSE IF g.retryAfterTimestamp # Null /\ Seconds(t) < g.retryAfterTimestamp[1]
  THEN World(g, c, Finish(f, Throw(RateLimitError(g.retryAfterTimestamp[1] - Seconds(t),
                                                  g.retryAfterTimestamp[1]))))
  ELSE IF g.remainingRequests = 0
  THEN World(g, c, Finish(f, Throw(RateLimitError(60, Seconds(t) + 60))))
  ELSE World(requestBegin(g, t), c, IssueRequest(f, "details"))

\* lines 457-471: fetchAnimeDetails up to its await
fetchAnimeDetailsBegin(g, c, f, animeId, t) ==
  IF MapHas(c.det, animeId)
  THEN World(g, c, Finish(f, Return(MapGet(c.det, animeId))))
  ELSE World(requestBegin(g, t), c, IssueRequest(f, "details"))

\* fetchAnimeDetails catching what the request throws: it caches an empty
\* entry and throws its own error
fetchAnimeDetailsResume_CatchAll(g, c, f, res) ==
  IF res.kind = "throw" \/ res.value = Null \/ res.value[1] = Null
  THEN World(g, [c EXCEPT !.det = MapSet(@, f.arg, "none")],
             Finish(f, Throw(Error("Could not fetch details"))))
  ELSE LET Media == res.value[1][1]
       IN World(g, [c EXCEPT !.det = MapSet(@, f.arg, Media)], Finish(f, Return(Media)))

\* lines 472-478: fetchAnimeDetails after its await; data is null, or holds
\* Media (null or the details)
fetchAnimeDetailsResume(g, c, f, res) ==
  IF res.kind = "throw" THEN World(g, c, Finish(f, res))
  ELSE IF res.value = Null \/ res.value[1] = Null
  THEN World(g, c, Finish(f, Throw(Error("Could not fetch details"))))
  ELSE LET Media == res.value[1][1]
       IN World(g, [c EXCEPT !.det = MapSet(@, f.arg, Media)], Finish(f, Return(Media)))

---------------------------------------------------------------------------
(* getQuestionCharacters *)

\* getPoolSize without the cap
getPoolSize_NoCap(round, difficulty) ==
  LET baseSize == IF difficulty = "easy" THEN 50
                  ELSE IF difficulty = "medium" THEN 100 ELSE 150
      roundMultiplier == IF difficulty = "easy" THEN 25
                         ELSE IF difficulty = "medium" THEN 50 ELSE 75
  IN baseSize + (round \div 5) * roundMultiplier

\* lines 497-503
getPoolSize(round, difficulty) ==
  LET baseSize == IF difficulty = "easy" THEN 50
                  ELSE IF difficulty = "medium" THEN 100 ELSE 150
      roundMultiplier == IF difficulty = "easy" THEN 25
                         ELSE IF difficulty = "medium" THEN 50 ELSE 75
  IN Min(baseSize + (round \div 5) * roundMultiplier, 500)

\* lines 569-571: animeIds.sort(() => Math.random() - 0.5).slice(0, 4): the
\* first 4 elements of some permutation of animeIds
ShuffleSlice(animeIds) ==
  LET n == Len(animeIds)
      k == Min(4, n)
  IN { [i \in 1..k |-> animeIds[ix[i]]] :
         ix \in { x \in [1..k -> 1..n] : \A i, j \in 1..k : i # j => x[i] # x[j] } }

\* WithImage keeping every character
WithImage_KeepAll(nodes) == nodes

\* line 586: the characters of a media that have an image
WithImage(nodes) == { ch \in nodes : ch.image # "" }

\* lines 583-588: mediaMap, from the media list of the batch (a set of
\* <<id, characters>>)
BuildMediaMap(media) == { <<m[1], WithImage(m[2])>> : m \in media }

\* SelectUnique without the test against usedCharIds
RECURSIVE SelectUnique_AllowReuse(_, _, _, _, _)
SelectUnique_AllowReuse(mediaMap, ids, i, chars, origins) ==
  IF i > Len(ids) \/ Len(chars) = 4
  THEN { [ selectedCharsBase |-> chars, originAnimeIds |-> origins ] }
  ELSE LET animeId == ids[i]
           potentialChars == IF MapHas(mediaMap, animeId)
                             THEN MapGet(mediaMap, animeId) ELSE {}
       IN IF potentialChars = {}
          THEN SelectUnique_AllowReuse(mediaMap, ids, i + 1, chars, origins)
          ELSE UNION { SelectUnique_AllowReuse(mediaMap, ids, i + 1,
                                               Append(chars, selectedChar),
                                               Append(origins, animeId)) :
                       selectedChar \in potentialChars }

\* lines 594-615: the loop over selectedAnimeIds from index i on, every way
\* the random picks can go; a result is the characters and their origins
RECURSIVE SelectUnique(_, _, _, _, _)
SelectUnique(mediaMap, ids, i, chars, origins) ==
  IF i > Len(ids) \/ Len(chars) = 4
  THEN { [ selectedCharsBase |-> chars, originAnimeIds |-> origins ] }
  ELSE LET animeId == ids[i]
           charsForAnime == IF MapHas(mediaMap, animeId)
                            THEN MapGet(mediaMap, animeId) ELSE {}
           usedCharIds == { chars[j].id : j \in 1..Len(chars) }
           potentialChars == { ch \in charsForAnime : ch.id \notin usedCharIds }
       IN IF potentialChars = {}
          THEN SelectUnique(mediaMap, ids, i + 1, chars, origins)
          ELSE UNION { SelectUnique(mediaMap, ids, i + 1,
                                    Append(chars, selectedChar),
                                    Append(origins, animeId)) :
                       selectedChar \in potentialChars }

\* lines 509-562: the loop's test and the pool request of one attempt
gqcAttempt(g, c, f, t) ==
  World(requestBegin(g, t), c,
        IssueRequest([f EXCEPT !.animeIds = <<>>, !.selectedAnimeIds = <<>>,
                               !.mediaMap = {}, !.selectedCharsBase = <<>>,
                               !.originAnimeIds = <<>>, !.titleMap = {},
                               !.ids = <<>>],
                     "pool"))

\* gqcBegin taking the pool from topAnimeIdsCache when it has the pool size
gqcBegin_FromCache(g, c, f, arg, t) ==
  LET poolSize == getPoolSize(arg.round, arg.difficulty)
      f1 == [f EXCEPT !.poolSize = poolSize, !.attempts = 0]
  IN IF MapHas(c.top, poolSize)
     THEN LET animeIds == MapGet(c.top, poolSize)
              sel == SubSeq(animeIds, 1, Min(4, Len(animeIds)))
          IN World(requestBegin(g, t), c,
                   IssueRequest([f1 EXCEPT !.animeIds = animeIds, !.ids = sel,
                                           !.selectedAnimeIds = sel], "chars"))
     ELSE gqcAttempt(g, c, f1, t)

\* lines 482-508
gqcBegin(g, c, f, arg, t) ==
  gqcAttempt(g, c, [f EXCEPT !.poolSize = getPoolSize(arg.round, arg.difficulty),
                             !.attempts = 0], t)

\* gqcCatch without the instanceof test: a RateLimitError is retried as well
gqcCatch_RetryAll(g, c, f, error, t) ==
  LET f1 == [f EXCEPT !.error = Some(error),
                      !.caught = IF error.name = "RateLimitError"
                                 THEN "RateLimitError" ELSE "other"]
      f2 == [f1 EXCEPT !.attempts = @ + 1]
  IN IF f2.attempts = maxAttempts
     THEN World(g, c, Finish(f2,
            Throw(Error("Failed to get question characters after multiple attempts"))))
     ELSE gqcAttempt(g, c, f2, t)

\* gqcCatch giving up one attempt early
gqcCatch_OneAttemptLess(g, c, f, error, t) ==
  LET f1 == [f EXCEPT !.error = Some(error),
                      !.caught = IF error.name = "RateLimitError"
                                 THEN "RateLimitError" ELSE "other"]
  IN IF error.name = "RateLimitError"
     THEN World(g, c, Finish(f1, Throw(error)))
     ELSE LET f2 == [f1 EXCEPT !.attempts = @ + 1]
          IN IF f2.attempts = maxAttempts - 1
             THEN World(g, c, Finish(f2,
                    Throw(Error("Failed to get question characters after multiple attempts"))))
             ELSE gqcAttempt(g, c, f2, t)

\* gqcCatch without attempts++
gqcCatch_NoCount(g, c, f, error, t) ==
  LET f1 == [f EXCEPT !.error = Some(error),
                      !.caught = IF error.name = "RateLimitError"
                                 THEN "RateLimitError" ELSE "other"]
  IN IF error.name = "RateLimitError"
     THEN World(g, c, Finish(f1, Throw(error)))
     ELSE IF f1.attempts = maxAttempts
          THEN World(g, c, Finish(f1,
                 Throw(Error("Failed to get question characters after multiple attempts"))))
          ELSE gqcAttempt(g, c, f1, t)

\* lines 654-675: the catch block, for the error caught
gqcCatch(g, c, f, error, t) ==
  LET f1 == [f EXCEPT !.error = Some(error),
                      !.caught = IF error.name = "RateLimitError"
                                 THEN "RateLimitError" ELSE "other"]
  IN IF error.name = "RateLimitError"
     THEN World(g, c, Finish(f1, Throw(error)))
     ELSE LET f2 == [f1 EXCEPT !.attempts = @ + 1]
          IN IF f2.attempts = maxAttempts
             THEN World(g, c, Finish(f2,
                    Throw(Error("Failed to get question characters after multiple attempts"))))
             ELSE gqcAttempt(g, c, f2, t)

\* gqcAfterPool without the test for an empty pool
gqcAfterPool_NoEmptyCheck(g, c, f, data, t) ==
  IF data = Null THEN { gqcCatch(g, c, f, Error("TypeError"), t) }
  ELSE LET animeIds == data[1]
       IN { World(requestBegin(g, t), c,
                  IssueRequest([f EXCEPT !.animeIds = animeIds, !.ids = sel,
                                         !.selectedAnimeIds = sel], "chars")) :
            sel \in ShuffleSlice(animeIds) }

\* lines 537-579: after the pool request returned
gqcAfterPool(g, c, f, data, t) ==
  IF data = Null THEN { gqcCatch(g, c, f, Error("TypeError"), t) }
  ELSE LET animeIds == data[1]
       IN IF Len(animeIds) = 0
          THEN { gqcCatch(g, c, f, Error("No anime found matching the criteria"), t) }
          ELSE { World(requestBegin(g, t), c,
                       IssueRequest([f EXCEPT !.animeIds = animeIds, !.ids = sel,
                                              !.selectedAnimeIds = sel], "chars")) :
                 sel \in ShuffleSlice(animeIds) }

\* gqcAfterChars content with 3 characters
gqcAfterChars_ThreeEnough(g, c, f, data, t) ==
  IF data = Null
  THEN { gqcCatch(g, c, f, Error("Character batch query failed."), t) }
  ELSE LET mediaMap == BuildMediaMap(data[1])
       IN { IF Len(s.selectedCharsBase) < 3
            THEN gqcCatch(g, c, [f EXCEPT !.mediaMap = mediaMap],
                          Error("Could only select fewer than 4 unique characters."), t)
            ELSE World(requestBegin(g, t), c,
                       IssueRequest([f EXCEPT !.mediaMap = mediaMap,
                                       !.selectedCharsBase = s.selectedCharsBase,
                                       !.originAnimeIds = s.originAnimeIds,
                                       !.ids = s.originAnimeIds], "titles")) :
            s \in SelectUnique(mediaMap, f.selectedAnimeIds, 1, <<>>, <<>>) }

\* gqcAfterChars requesting the character batch again when fewer than 4
\* characters were selected
gqcAfterChars_Refetch(g, c, f, data, t) ==
  IF data = Null
  THEN { gqcCatch(g, c, f, Error("Character batch query failed."), t) }
  ELSE LET mediaMap == BuildMediaMap(data[1])
       IN { IF Len(s.selectedCharsBase) < 4
            THEN World(requestBegin(g, t), c, IssueRequest(f, "chars"))
            ELSE World(requestBegin(g, t), c,
                       IssueRequest([f EXCEPT !.mediaMap = mediaMap,
                                       !.selectedCharsBase = s.selectedCharsBase,
                                       !.originAnimeIds = s.originAnimeIds,
                                       !.ids = s.originAnimeIds], "titles")) :
            s \in SelectUnique(mediaMap, f.selectedAnimeIds, 1, <<>>, <<>>) }

\* lines 580-627: after the character batch returned
gqcAfterChars(g, c, f, data, t) ==
  IF data = Null
  THEN { gqcCatch(g, c, f, Error("Character batch query failed."), t) }
  ELSE LET mediaMap == BuildMediaMap(data[1])
       IN { IF Len(s.selectedCharsBase) < 4
            THEN gqcCatch(g, c, [f EXCEPT !.mediaMap = mediaMap],
                          Error("Could only select fewer than 4 unique characters."), t)
            ELSE World(requestBegin(g, t), c,
                       IssueRequest([f EXCEPT !.mediaMap = mediaMap,
                                       !.selectedCharsBase = s.selectedCharsBase,
                                       !.originAnimeIds = s.originAnimeIds,
                                       !.ids = s.originAnimeIds], "titles")) :
            s \in SelectUnique(mediaMap, f.selectedAnimeIds, 1, <<>>, <<>>) }

\* CharactersWithTitles looking every title up under the first origin id
CharactersWithTitles_FirstTitle(selectedCharsBase, originAnimeIds, titleMap) ==
  [ index \in 1..Len(selectedCharsBase) |->
      [ id |-> selectedCharsBase[index].id,
        image |-> selectedCharsBase[index].image,
        animeTitle |-> IF MapHas(titleMap, originAnimeIds[1])
                       THEN Some(MapGet(titleMap, originAnimeIds[1]))
                       ELSE Null ] ]

\* lines 635-640
CharactersWithTitles(selectedCharsBase, originAnimeIds, titleMap) ==
  [ index \in 1..Len(selectedCharsBase) |->
      [ id |-> selectedCharsBase[index].id,
        image |-> selectedCharsBase[index].image,
        animeTitle |-> IF MapHas(titleMap, originAnimeIds[index])
                       THEN Some(MapGet(titleMap, originAnimeIds[index]))
                       ELSE Null ] ]

\* gqcAfterTitles taking correctAnimeId from the first option
gqcAfterTitles_FirstOrigin(g, c, f, data, t) ==
  IF data = Null
  THEN { gqcCatch(g, c, f, Error("Title batch query failed."), t) }
  ELSE LET titleMap == data[1]
           charactersWithTitles ==
             CharactersWithTitles(f.selectedCharsBase, f.originAnimeIds, titleMap)
       IN { World(g, c, Finish([f EXCEPT !.titleMap = titleMap],
              Return([ characters |-> charactersWithTitles,
                       correctCharacterId |-> charactersWithTitles[correctIndex].id,
                       correctAnimeId |-> f.originAnimeIds[1] ]))) :
            correctIndex \in 1..Len(charactersWithTitles) }

\* lines 628-653: after the title batch returned
gqcAfterTitles(g, c, f, data, t) ==
  IF data = Null
  THEN { gqcCatch(g, c, f, Error("Title batch query failed."), t) }
  ELSE LET titleMap == data[1]
           charactersWithTitles ==
             CharactersWithTitles(f.selectedCharsBase, f.originAnimeIds, titleMap)
       IN { World(g, c, Finish([f EXCEPT !.titleMap = titleMap],
              Return([ characters |-> charactersWithTitles,
                       correctCharacterId |-> charactersWithTitles[correctIndex].id,
                       correctAnimeId |-> f.originAnimeIds[correctIndex] ]))) :
            correctIndex \in 1..Len(charactersWithTitles) }

\* getQuestionCharacters after an await of rateLimitedClient.request
gqcResume(g, c, f, res, t) ==
  IF res.kind = "throw" THEN { gqcCatch(g, c, f, res.value, t) }
  ELSE IF f.step = "pool" THEN gqcAfterPool(g, c, f, res.value, t)
  ELSE IF f.step = "chars" THEN gqcAfterChars(g, c, f, res.value, t)
  ELSE gqcAfterTitles(g, c, f, res.value, t)

---------------------------------------------------------------------------
(* Steps *)

\* the caller of rateLimitedClient.request goes on with its result
Resume(g, c, f, res, t) ==
  IF res.kind = "probe"
  THEN { World(g, c, [f EXCEPT !.pc = "awaitProbe", !.error = Some(res.value),
                               !.caught = "none"]) }
  ELSE LET f1 == IF res.kind = "throw"
                 THEN [f EXCEPT !.error = Some(res.value), !.caught = "none"]
                 ELSE [f EXCEPT !.caught = "none"]
       IN IF f.fn = "fetchTopAnimeIds" THEN { fetchTopAnimeIdsResume(g, c, f1, res) }
          ELSE IF f.fn = "fetchAnimeDetails" THEN { fetchAnimeDetailsResume(g, c, f1, res) }
          ELSE gqcResume(g, c, f1, res, t)

Apply(p, w) ==
  /\ SetGov(w.g)
  /\ SetCaches(w.c)
  /\ proc' = [proc EXCEPT ![p] = w.f]
  /\ fired' = "none"
  /\ BagCardinality(w.g.pauseTimers) <= MaxPauseTimers

NewFrame(fn, arg) == [IdleFrame EXCEPT !.fn = fn, !.arg = arg]

CallFetchTopAnimeIds(p, count) ==
  /\ proc[p].pc = "idle"
  /\ calls < MaxCalls
  /\ calls' = calls + 1
  /\ Apply(p, fetchTopAnimeIdsBegin(Gov, Caches, NewFrame("fetchTopAnimeIds", count),
                                    count, now))
  /\ UNCHANGED <<now, game>>

CallFetchAnimeDetails(p, animeId) ==
  /\ proc[p].pc = "idle"
  /\ calls < MaxCalls
  /\ calls' = calls + 1
  /\ Apply(p, fetchAnimeDetailsBegin(Gov, Caches, NewFrame("fetchAnimeDetails", animeId),
                                     animeId, now))
  /\ UNCHANGED <<now, game>>

CallGetQuestionCharacters(p, arg) ==
  /\ proc[p].pc = "idle"
  /\ calls < MaxCalls
  /\ calls' = calls + 1
  /\ Apply(p, gqcBegin(Gov, Caches, NewFrame("getQuestionCharacters", arg), arg, now))
  /\ UNCHANGED <<now, game>>

\* an outcome goes to the awaiting caller in a microtask, before any timer
\* callback or network event runs
NoneDone == \A p \in Procs : proc[p].pc # "done"

\* the network answers the call p awaits
Respond(p, resp) ==
  /\ NoneDone
  /\ proc[p].pc = "awaitNet"
  /\ LET f == [proc[p] EXCEPT !.resp = Some(resp), !.nowSec = Some(Seconds(now))]
         s == requestSettled(Gov, resp, now)
     IN \E w \in Resume(s.g, Caches, f, s.res, now) : Apply(p, w)
  /\ UNCHANGED <<now, calls, game>>

\* isInternetWorking() answers
ProbeDone(p, online) ==
  /\ NoneDone
  /\ proc[p].pc = "awaitProbe"
  /\ LET f == [proc[p] EXCEPT !.nowSec = Some(Seconds(now))]
         s == requestProbed(Gov, f.error[1], online, now)
     IN \E w \in Resume(s.g, Caches, f, s.res, now) : Apply(p, w)
  /\ UNCHANGED <<now, calls, game>>

\* the caller takes the outcome
Release(p) ==
  /\ proc[p].pc = "done"
  /\ proc' = [proc EXCEPT ![p] = IdleFrame]
  /\ fired' = "none"
  /\ UNCHANGED <<now, govVars, cacheVars, calls, game>>

\* PauseTimerFire with the callback not resetting the count
PauseTimerFire_NoReset(due) ==
  /\ NoneDone
  /\ BagIn(due, pauseTimers)
  /\ now >= due
  /\ retryAfterTimestamp' = Null
  /\ pauseTimers' = pauseTimers (-) SetToBag({due})
  /\ fired' = "pauseTimer"
  /\ UNCHANGED <<now, remainingRequests, rateLimitWindowStartTimestamp,
                 rateLimitResetTimer, resetTimers, cacheVars, proc, calls, game>>

\* lines 39-42: a timer of setRateLimitPause fires
PauseTimerFire(due) ==
  /\ NoneDone
  /\ BagIn(due, pauseTimers)
  /\ now >= due
  /\ retryAfterTimestamp' = Null
  /\ remainingRequests' = ACTUAL_RATE_LIMIT_PER_MINUTE
  /\ pauseTimers' = pauseTimers (-) SetToBag({due})
  /\ fired' = "pauseTimer"
  /\ UNCHANGED <<now, rateLimitWindowStartTimestamp, rateLimitResetTimer, resetTimers,
                 cacheVars, proc, calls, game>>

\* lines 68-72: the 60 s timer of updateRateLimitState fires
ResetTimerFire(due) ==
  /\ NoneDone
  /\ BagIn(due, resetTimers)
  /\ now >= due
  /\ remainingRequests' = ACTUAL_RATE_LIMIT_PER_MINUTE
  /\ rateLimitResetTimer' = Null
  /\ resetTimers' = resetTimers (-) SetToBag({due})
  /\ fired' = "resetTimer"
  /\ UNCHANGED <<now, retryAfterTimestamp, rateLimitWindowStartTimestamp, pauseTimers,
                 cacheVars, proc, calls, game>>

\* time passes
Tick(t) ==
  /\ NoneDone
  /\ t > now
  /\ now' = t
  /\ fired' = "none"
  /\ UNCHANGED <<govVars, cacheVars, proc, calls, game>>

---------------------------------------------------------------------------
(* The environment: the instants of the clock, what the network answers   *)

TimePoints ==
  { sec * 1000 + ms : sec \in (0..MaxSec) \cup (60..(60 + MaxSec)), ms \in {0, 100} }

\* x-ratelimit-remaining, x-ratelimit-reset (seconds since the epoch), retry-after
RemainingHeaders == { Null, Some(30), Some(95) }
ResetHeaders == { Null, Some(1) }
RetryAfterHeaders == { Null, Some(0), Some(1) }

Failures ==
  { HttpError(429, TRUE, reset, retryAfter) :
      reset \in ResetHeaders, retryAfter \in RetryAfterHeaders }
  \cup { HttpError(429, FALSE, Null, Null), HttpError(500, TRUE, Null, Null),
         NoResponse("network"), NoResponse("other") }

TopCounts == { 2 }
DetailIds == { 1, 2 }

\* the decoded body of a successful answer to the fetcher f
FetchData(f) ==
  IF f.step = "top"
  THEN { Null, Some(<<1, 2>>) }
  ELSE { Some(Null), Some(Some("detailsA")) }

EnvFetch(f) ==
  IF f.pc # "awaitNet" THEN {}
  ELSE { OkResponse(remaining, data) :
           remaining \in RemainingHeaders, data \in FetchData(f) }
       \cup Failures

---------------------------------------------------------------------------
(* Spec: the governor, the caches and the two cached fetchers *)

InitGov ==
  /\ now = 0
  /\ remainingRequests = RATE_LIMIT_MAX
  /\ retryAfterTimestamp = Null
  /\ rateLimitWindowStartTimestamp = Null
  /\ rateLimitResetTimer = Null
  /\ resetTimers = EmptyBag
  /\ pauseTimers = EmptyBag
  /\ proc = [p \in Procs |-> IdleFrame]
  /\ calls = 0
  /\ fired = "none"

\* lines 229-260: the caches are loaded from localStorage, here empty
Init ==
  /\ InitGov
  /\ topAnimeIdsCache = {}
  /\ animeDetailsCache = {}
  /\ game = Null

Timers ==
  \/ \E due \in BagToSet(pauseTimers) : PauseTimerFire(due)
  \/ \E due \in BagToSet(resetTimers) : ResetTimerFire(due)
  \/ \E t \in TimePoints : Tick(t)

\* one caller at a time
Caller == 1

Next ==
  \/ \E count \in TopCounts : CallFetchTopAnimeIds(Caller, count)
  \/ \E animeId \in DetailIds : CallFetchAnimeDetails(Caller, animeId)
  \/ \E resp \in EnvFetch(proc[Caller]) : Respond(Caller, resp)
  \/ \E online \in BOOLEAN : ProbeDone(Caller, online)
  \/ Release(Caller)
  \/ Timers

Spec == Init /\ [][Next]_vars

---------------------------------------------------------------------------
(* SpecAsm: getQuestionCharacters over the governor *)

GqcArgs == { [ round |-> 7, difficulty |-> "medium", genres |-> FALSE ] }

\* the id lists a pool query answers with: empty, fewer than 4 ids, at least
\* 4 unique ids, and a list naming one id twice
Pools ==
  { <<>>, [i \in 1..3 |-> i], [i \in 1..MaxAnime |-> i], <<1, 1, 2, 3>> }

Char(id, image) == [ id |-> id, image |-> image ]

\* the server's characters per anime, as a set of <<anime id, characters>>:
\* characters of their own (anime 1 has two with an image, the others one
\* with and one without)
CatalogOwn ==
  { <<a, IF a = 1 THEN { Char(10, "img"), Char(11, "img") }
         ELSE { Char(10 * a, "img"), Char(10 * a + 1, "") }>> : a \in AnimeIds }

\* character 10 appears in every anime, and is the only one of anime 1
CatalogShared ==
  { <<a, IF a = 1 THEN { Char(10, "img") }
         ELSE { Char(10, "img"), Char(10 * a, "img") }>> : a \in AnimeIds }

\* anime 1 has no characters, anime 2 is missing, anime 3 has none with an image
CatalogSparse ==
  { <<a, IF a = 1 THEN {}
         ELSE IF a = 3 THEN { Char(31, "") }
         ELSE { Char(10 * a, "img") }>> : a \in AnimeIds \ {2} }

Catalogs == { CatalogOwn, CatalogShared, CatalogSparse }

Range(seq) == { seq[i] : i \in 1..Len(seq) }

Title(a) == [ romaji |-> a, english |-> Null ]

\* the decoded body of a successful answer to the request getQuestionCharacters
\* awaits: the pool's ids; Page.media of the character batch; Page.media of
\* the title batch (all titles, or all but the first id's); null for a body
\* without Page.media
GqcData(f) ==
  IF f.step = "pool" THEN { Null } \cup { Some(pool) : pool \in Pools }
  ELSE IF f.step = "chars"
  THEN { Null } \cup
       { Some({ m \in catalog : m[1] \in Range(f.ids) }) :
           catalog \in Catalogs }
  ELSE { Null,
         Some({ <<a, Title(a)>> : a \in Range(f.ids) }),
         Some({ <<a, Title(a)>> : a \in Range(f.ids) \ { f.ids[1] } }) }

AsmFailures ==
  { HttpError(429, TRUE, Null, Some(45)), HttpError(429, TRUE, Null, Null),
    HttpError(429, TRUE, Some(3), Some(45)), HttpError(500, TRUE, Null, Null),
    NoResponse("network") }

EnvAsm(f) ==
  IF f.pc # "awaitNet" THEN {}
  ELSE { OkResponse(Null, data) : data \in GqcData(f) } \cup AsmFailures

\* the instants of the clock under SpecAsm: the start, and one after every
\* timer is due
AsmTimePoints == { 0, 61100 }

\* one invocation, from the initial state of the governor
NextAsm ==
  \/ \E arg \in GqcArgs : calls = 0 /\ CallGetQuestionCharacters(Caller, arg)
  \/ \E resp \in EnvAsm(proc[Caller]) : Respond(Caller, resp)
  \/ \E online \in BOOLEAN : ProbeDone(Caller, online)
  \/ Release(Caller)
  \/ \E due \in BagToSet(pauseTimers) : PauseTimerFire(due)
  \/ \E due \in BagToSet(resetTimers) : ResetTimerFire(due)
  \/ \E t \in AsmTimePoints : Tick(t)

SpecAsm == Init /\ [][NextAsm]_vars

---------------------------------------------------------------------------
(* SpecConc: two invocations of the cached fetchers in flight at once, as  *)
(* when a hint is asked twice or while another request is under way        *)

\* the decoded body of a successful answer: the server may answer the same
\* query differently from one call to the next
ConcData(f) ==
  IF f.step = "top"
  THEN { Some(<<1, 2>>), Some(<<2, 1>>) }
  ELSE { Some(Some("detailsA")), Some(Some("detailsB")) }

ConcFailures == { HttpError(429, TRUE, Null, Some(1)), NoResponse("network") }

EnvConc(f) ==
  IF f.pc # "awaitNet" THEN {}
  ELSE { OkResponse(remaining, data) :
           remaining \in { Null, Some(95) }, data \in ConcData(f) }
       \cup ConcFailures

ConcDetailIds == { 1 }

\* the instants of the clock under SpecConc: the start, one after a pause of
\* 1 s and its timer, one after the 60 s timer
ConcTimePoints == { 0, 1100, 60000 }

NextConc ==
  \/ \E p \in Procs :
       \/ \E count \in TopCounts : CallFetchTopAnimeIds(p, count)
       \/ \E animeId \in ConcDetailIds : CallFetchAnimeDetails(p, animeId)
       \/ \E resp \in EnvConc(proc[p]) : Respond(p, resp)
       \/ \E online \in BOOLEAN : ProbeDone(p, online)
       \/ Release(p)
  \/ \E due \in BagToSet(pauseTimers) : PauseTimerFire(due)
  \/ \E due \in BagToSet(resetTimers) : ResetTimerFire(due)
  \/ \E t \in ConcTimePoints : Tick(t)

SpecConc == Init /\ [][NextConc]_vars

\* SpecLive: one invocation of getQuestionCharacters with every network call
\* and every probe answered in the end; the answers are a full or an empty
\* pool, characters of their own or too few, titles or none, a 429, a 500 and
\* a NetworkError
LiveData(f) ==
  IF f.step = "pool" THEN { Some(<<>>), Some(<<1, 2, 3, 4>>) }
  ELSE IF f.step = "chars"
  THEN { Some({ m \in catalog : m[1] \in Range(f.ids) }) :
           catalog \in { CatalogOwn, CatalogSparse } }
  ELSE { Null, Some({ <<a, Title(a)>> : a \in Range(f.ids) }) }

EnvLive(f) ==
  IF f.pc # "awaitNet" THEN {}
  ELSE { OkResponse(Null, data) : data \in LiveData(f) }
       \cup { HttpError(429, TRUE, Null, Null), HttpError(500, TRUE, Null, Null),
              NoResponse("network") }

NextLive ==
  \/ \E arg \in GqcArgs : calls = 0 /\ CallGetQuestionCharacters(Caller, arg)
  \/ \E resp \in EnvLive(proc[Caller]) : Respond(Caller, resp)
  \/ \E online \in BOOLEAN : ProbeDone(Caller, online)
  \/ Release(Caller)
  \/ \E due \in BagToSet(pauseTimers) : PauseTimerFire(due)
  \/ \E due \in BagToSet(resetTimers) : ResetTimerFire(due)
  \/ \E t \in AsmTimePoints : Tick(t)

SpecLive ==
  /\ Init
  /\ [][NextLive]_vars
  /\ WF_vars(\E resp \in EnvLive(proc[Caller]) : Respond(Caller, resp))
  /\ WF_vars(\E online \in BOOLEAN : ProbeDone(Caller, online))

---------------------------------------------------------------------------
(* SpecPool: getQuestionCharacters called for every round and difficulty,  *)
(* its pool request answered with an empty pool or an HTTP error           *)

\* rounds 0..MaxRound
MaxRound == 90

Difficulties == { "easy", "medium", "hard" }

PoolArgs ==
  { [ round |-> round, difficulty |-> difficulty, genres |-> FALSE ] :
      round \in 0..MaxRound, difficulty \in Difficulties }

EnvPool(f) ==
  IF f.pc # "awaitNet" THEN {}
  ELSE { OkResponse(Null, Some(<<>>)), HttpError(500, TRUE, Null, Null) }

NextPool ==
  \/ \E arg \in PoolArgs : CallGetQuestionCharacters(Caller, arg)
  \/ \E resp \in EnvPool(proc[Caller]) : Respond(Caller, resp)
  \/ Release(Caller)

SpecPool == Init /\ [][NextPool]_vars

---------------------------------------------------------------------------
(* SpecStored: getQuestionCharacters in a session whose caches were loaded *)
(* from localStorage with entries of an earlier session                    *)

\* topAnimeIdsCache as loaded: empty, or the ids stored for the count that is
\* the pool size of GqcArgs
StoredTopAnimeIds == { {}, { <<150, <<1, 2, 3, 4>>>> } }

\* animeDetailsCache as loaded: empty, or the details of anime 1
StoredAnimeDetails == { {}, { <<1, "detailsA">> } }

InitStored ==
  /\ InitGov
  /\ topAnimeIdsCache \in StoredTopAnimeIds
  /\ animeDetailsCache \in StoredAnimeDetails
  /\ game = Null

SpecStored == InitStored /\ [][NextLive]_vars

---------------------------------------------------------------------------
(* SpecTimers: calls of fetchAnimeDetails while the clock runs on to the   *)
(* instant every pending timer is due, and the event loop runs the timers  *)
(* that are due                                                            *)

TimerFailures ==
  { HttpError(429, TRUE, Null, Some(1)), HttpError(429, TRUE, Null, Null),
    NoResponse("network") }

EnvTimers(f) ==
  IF f.pc # "awaitNet" THEN {}
  ELSE { OkResponse(remaining, Some(Some("detailsA"))) :
           remaining \in { Null, Some(95) } }
       \cup TimerFailures

\* the instants at which a pending timer is due
Dues == BagToSet(pauseTimers) \cup BagToSet(resetTimers)

TimersFire ==
  \/ \E due \in BagToSet(pauseTimers) : PauseTimerFire(due)
  \/ \E due \in BagToSet(resetTimers) : ResetTimerFire(due)

NextTimers ==
  \/ \E animeId \in DetailIds : CallFetchAnimeDetails(Caller, animeId)
  \/ \E resp \in EnvTimers(proc[Caller]) : Respond(Caller, resp)
  \/ \E online \in BOOLEAN : ProbeDone(Caller, online)
  \/ Release(Caller)
  \/ TimersFire
  \/ \E t \in Dues : Tick(t)

\* the caller takes the outcome, time passes, and a timer that is due runs
SpecTimers ==
  /\ Init
  /\ [][NextTimers]_vars
  /\ WF_vars(Release(Caller))
  /\ WF_vars(\E t \in Dues : Tick(t))
  /\ WF_vars(TimersFire)

---------------------------------------------------------------------------
(* The Game component (components/Game.tsx): its state, the handlers that  *)
(* load questions, take answers, give the hint and run the pauses.  React  *)
(* renders once after each handler, continuation or timer callback; a      *)
(* callback reads the state of the render it was created in; the effects   *)
(* of a render run before the next event.  The 50:50 and skip lifelines    *)
(* and the gamepad are left out.                                           *)

\* service invocations the component starts in one behaviour
MaxGameCalls == 3
\* seconds of a question's time within which the player clicks
MaxThink == 0

\* lines 57-68
getTimePerQuestion(difficulty) ==
  IF difficulty = "easy" THEN 20
  ELSE IF difficulty = "medium" THEN 15
  ELSE IF difficulty = "hard" THEN 10
  ELSE 15

NoFeedback == [ correctId |-> Null, selectedId |-> Null ]


\* what loadQuestion and preloadNextQuestion read of the state of the
\* render they were created in, here the first one
FirstRender ==
  [ isRateLimitPauseActive |-> FALSE, nextQuestionData |-> Null,
    currentRound |-> 1, isFetchingHint |-> FALSE,
    isPreloading |-> FALSE, gameOver |-> FALSE ]

\* what awaits an invocation of the client: the function that goes on
\* (loadQuestion, preloadNextQuestion, handleHint), the callbacks it calls,
\* whether handleRateLimitPauseComplete awaits it in turn, and whether
\* handleHint saw the game running
Awaiting(kind, cb, awaited, running) ==
  [ kind |-> kind, cb |-> cb, awaited |-> awaited, running |-> running ]

NoCont == Awaiting("none", [ load |-> FirstRender, preload |-> FirstRender ], FALSE, FALSE)

\* what a setTimeout callback reads of the render it was created in
Seen(cb, pendingPause, isRateLimitPausePending, lives, scoreAdd) ==
  [ cb |-> cb, pendingPause |-> pendingPause,
    isRateLimitPausePending |-> isRateLimitPausePending,
    lives |-> lives, scoreAdd |-> scoreAdd ]

\* lines 189-240: the state after the first render, with what the model
\* keeps of React: the pending setTimeout callbacks, the awaits in progress,
\* the dependencies the effects last ran for, and the renders the memoized
\* loadQuestion and preloadNextQuestion were created in
MountedGame(options) ==
  [ options |-> options,
    score |-> 0, lives |-> 3, currentRound |-> 1,
    timeLeft |-> getTimePerQuestion(options.difficulty),
    lifelines |-> [ hint |-> TRUE ],
    lifelineUsage |-> [ hint |-> Null ],
    correctCharacterId |-> Null, correctAnimeId |-> Null,
    characterOptions |-> {},
    isLoading |-> TRUE, gameOver |-> FALSE,
    feedback |-> NoFeedback,
    nextQuestionData |-> Null, isPreloading |-> FALSE,
    showPauseScreen |-> FALSE, pendingPause |-> FALSE,
    isTimerRunning |-> TRUE, hint |-> Null, isFetchingHint |-> FALSE,
    rateLimitResetTimestamp |-> Null,
    isRateLimitPausePending |-> FALSE, isRateLimitPauseActive |-> FALSE,
    timeouts |-> {},                   \* pending setTimeout callbacks
    cont |-> [p \in Procs |-> NoCont], \* what awaits the invocation p
    effectRound |-> Null,              \* currentRound the effect of line 742 ran for
    timerDeps |-> Null,                \* dependencies the effect of line 746 ran for
    countdown |-> Null,                \* due time of the interval of line 754
    rateLimitTimer |-> Null,           \* due time of the mounted RateLimitTimer
    loadCb |-> FirstRender,            \* the render loadQuestion was created in
    preloadCb |-> FirstRender,         \* the render preloadNextQuestion was created in
    last |-> [ handler |-> "mount", error |-> "none" ] ]

\* the same of the render of gm
SnapshotOf(gm) ==
  [ isRateLimitPauseActive |-> gm.isRateLimitPauseActive,
    nextQuestionData |-> gm.nextQuestionData,
    currentRound |-> gm.currentRound, isFetchingHint |-> gm.isFetchingHint,
    isPreloading |-> gm.isPreloading, gameOver |-> gm.gameOver ]

\* loadQuestion and the preloadNextQuestion it calls, as the render of gm
\* hands them out
Callbacks(gm) == [ load |-> gm.loadCb, preload |-> gm.preloadCb ]

\* dependency lists of preloadNextQuestion (line 640) and loadQuestion
\* (lines 733-739)
preloadDeps(gm) == <<gm.isPreloading, gm.currentRound, gm.gameOver>>
loadDeps(gm) == <<gm.nextQuestionData, preloadDeps(gm), gm.currentRound, gm.isFetchingHint>>

\* dependency list of the timer effect (lines 770-776)
timerEffectDeps(gm) ==
  <<gm.timeLeft, gm.gameOver, gm.isTimerRunning, gm.showPauseScreen>>

\* lines 953-983: the RateLimitTimer is on screen
RateLimitTimerMounted(gm) ==
  /\ ~gm.isLoading
  /\ gm.isRateLimitPauseActive
  /\ gm.rateLimitResetTimestamp # Null

\* lines 953-1020: what the render shows
Screen(gm) ==
  IF gm.isLoading THEN "loading"
  ELSE IF gm.isRateLimitPauseActive /\ gm.rateLimitResetTimestamp # Null THEN "rateLimitPause"
  ELSE IF gm.gameOver THEN "gameOver"
  ELSE IF gm.showPauseScreen THEN "paused"
  ELSE "main"

\* the render after a step from the state old to the state new at time t:
\* useCallback keeps a callback until a dependency changes; the
\* RateLimitTimer starts its countdown of Math.max(1, reset - now) seconds
\* when it is mounted (lines 99-123, 961-982)
Render(old, new, t) ==
  [ new EXCEPT
      !.preloadCb = IF preloadDeps(new) # preloadDeps(old)
                    THEN SnapshotOf(new) ELSE old.preloadCb,
      !.loadCb = IF loadDeps(new) # loadDeps(old)
                 THEN SnapshotOf(new) ELSE old.loadCb,
      !.rateLimitTimer =
          IF ~RateLimitTimerMounted(new) THEN Null
          ELSE IF old.rateLimitTimer # Null /\ RateLimitTimerMounted(old)
          THEN old.rateLimitTimer
          ELSE Some(t + Max(1, new.rateLimitResetTimestamp[1] - Seconds(t)) * 1000) ]

\* the component with the client it calls
GW == [ game |-> game, g |-> Gov, c |-> Caches, proc |-> proc, calls |-> calls ]

ApplyGame(gw) ==
  /\ SetGov(gw.g)
  /\ SetCaches(gw.c)
  /\ proc' = gw.proc
  /\ calls' = gw.calls
  /\ game' = Render(game, gw.game, now)
  /\ fired' = "none"
  /\ BagCardinality(gw.g.pauseTimers) <= MaxPauseTimers
  /\ UNCHANGED now

\* the component calls an exported function of the client: w is the world
\* after the call's first step, cont what awaits its outcome
StartCall(gw, w, cont) ==
  LET free == { p \in Procs : gw.proc[p].pc = "idle" }
  IN IF free = {} \/ gw.calls >= MaxGameCalls THEN {}
     ELSE LET p == CHOOSE p \in free : \A q \in free : p <= q
          IN { [ gw EXCEPT !.g = w.g, !.c = w.c, !.proc[p] = w.f,
                           !.calls = @ + 1, !.game.cont[p] = cont ] }

GqcArg(gm, round) ==
  [ round |-> round, difficulty |-> gm.options.difficulty, genres |-> FALSE ]

\* what the component keeps of a question: it shows the characters in an
\* order of its own (lines 676-679), so their ids are kept as a set
Question(data) ==
  [ characters |-> { data.characters[i].id : i \in 1..Len(data.characters) },
    correctCharacterId |-> data.correctCharacterId,
    correctAnimeId |-> data.correctAnimeId ]

\* lines 604-616: preloadNextQuestion, created in the render `seen`, up to
\* its await
preloadNextQuestion(gw, seen, t) ==
  IF seen.isPreloading \/ seen.gameOver \/ seen.isRateLimitPauseActive THEN { gw }
  ELSE LET arg == GqcArg(gw.game, seen.currentRound + 1)
       IN StartCall([gw EXCEPT !.game.isPreloading = TRUE],
                    gqcBegin(gw.g, gw.c, NewFrame("getQuestionCharacters", arg), arg, t),
                    Awaiting("preload", [ load |-> seen, preload |-> seen ], FALSE, FALSE))

\* lines 622-628, 715-721: the catch of a RateLimitError
rateLimitPending(gm, t) ==
  [ gm EXCEPT !.rateLimitResetTimestamp = Some(Seconds(t) + 60),
              !.isRateLimitPausePending = TRUE,
              !.feedback = NoFeedback ]

\* lines 629-635, 722-726: the catch of another error schedules loadQuestion()
retryLater(gm, cb, t) ==
  [ gm EXCEPT !.isTimerRunning = FALSE,
              !.timeouts = @ \cup { [ kind |-> "retry", due |-> t + 500,
                                       seen |-> Seen(cb, FALSE, FALSE, 0, 0) ] } ]

\* lines 618-639: preloadNextQuestion after its await
preloadNextQuestionResume(gw, p, t) ==
  LET out == gw.proc[p].outcome[1]
      cb == gw.game.cont[p].cb
      gm0 == [ gw.game EXCEPT !.cont[p] = NoCont ]
      gm1 == IF out.kind = "return"
             THEN [ gm0 EXCEPT !.nextQuestionData = Some(Question(out.value)) ]
             ELSE IF out.value.name = "RateLimitError"
             THEN [ rateLimitPending(gm0, t) EXCEPT !.nextQuestionData = Null ]
             ELSE [ retryLater(gm0, cb, t) EXCEPT !.nextQuestionData = Null ]
  IN { [ gw EXCEPT !.proc[p] = IdleFrame,
                   !.game = [ gm1 EXCEPT
                      !.isPreloading = FALSE,
                      !.last = [ handler |-> "preloadNextQuestion",
                                 error |-> IF out.kind = "return" THEN "none"
                                           ELSE out.value.name ] ] ] }

\* lines 676-711: the question is put on screen, a lifeline used 3 rounds
\* ago is renewed and the time starts again
questionLoaded(gm, questionData) ==
  LET renew == /\ ~gm.lifelines.hint
               /\ gm.lifelineUsage.hint # Null
               /\ gm.currentRound - gm.lifelineUsage.hint[1] >= 3
  IN [ gm EXCEPT
         !.characterOptions = questionData.characters,
         !.correctCharacterId = Some(questionData.correctCharacterId),
         !.correctAnimeId = Some(questionData.correctAnimeId),
         !.timeLeft = getTimePerQuestion(gm.options.difficulty),
         !.lifelines.hint = IF renew THEN TRUE ELSE @,
         !.lifelineUsage.hint = IF renew THEN Null ELSE @ ]

\* lines 728-731: the end of loadQuestion
loadQuestionEnd(gm, cb) ==
  [ gm EXCEPT !.isLoading = FALSE,
              !.isTimerRunning = IF ~cb.load.isFetchingHint THEN TRUE ELSE @ ]

\* lines 923-930: handleRateLimitPauseComplete after `await loadQuestion(true)`
\* resolved
pauseCompleteResume(gm) ==
  [ gm EXCEPT !.isRateLimitPauseActive = FALSE,
              !.showPauseScreen = FALSE,
              !.isTimerRunning = TRUE ]

\* lines 642-674: loadQuestion(force), as the callbacks cb, up to its await,
\* or to its end when a preloaded question is at hand; awaited tells that
\* handleRateLimitPauseComplete awaits it
loadQuestion(gw, cb, force, awaited, t) ==
  IF cb.load.isRateLimitPauseActive /\ ~force
  THEN { [ gw EXCEPT !.game.last = [ handler |-> "loadQuestion", error |-> "skipped" ] ] }
  ELSE LET gw1 == [ gw EXCEPT !.game.isLoading = TRUE,
                              !.game.hint = Null,
                              !.game.characterOptions = {} ]
       IN IF cb.load.nextQuestionData # Null
          THEN { [ x EXCEPT !.game =
                     LET gm == [ loadQuestionEnd(
                                   questionLoaded(x.game, cb.load.nextQuestionData[1]), cb)
                                 EXCEPT !.last = [ handler |-> "loadQuestion",
                                                   error |-> "none" ] ]
                     IN IF awaited THEN pauseCompleteResume(gm) ELSE gm ] :
                 x \in preloadNextQuestion([ gw1 EXCEPT !.game.nextQuestionData = Null ],
                                           cb.preload, t) }
          ELSE LET arg == GqcArg(gw.game, cb.load.currentRound)
               IN StartCall(gw1,
                            gqcBegin(gw.g, gw.c, NewFrame("getQuestionCharacters", arg),
                                     arg, t),
                            Awaiting("load", cb, awaited, FALSE))

\* lines 666-731: loadQuestion after its await, and the
\* handleRateLimitPauseComplete that awaits it
loadQuestionResume(gw, p, t) ==
  LET out == gw.proc[p].outcome[1]
      cb == gw.game.cont[p].cb
      awaited == gw.game.cont[p].awaited
      gw0 == [ gw EXCEPT !.proc[p] = IdleFrame, !.game.cont[p] = NoCont ]
      after == IF out.kind = "return"
               THEN { [ x EXCEPT !.game = questionLoaded(x.game, Question(out.value)) ] :
                      x \in preloadNextQuestion(gw0, cb.preload, t) }
               ELSE IF out.value.name = "RateLimitError"
               THEN { [ gw0 EXCEPT !.game = rateLimitPending(gw0.game, t) ] }
               ELSE { [ gw0 EXCEPT !.game = retryLater(gw0.game, cb, t) ] }
  IN { [ x EXCEPT !.game =
           LET gm == [ loadQuestionEnd(x.game, cb)
                       EXCEPT !.last = [ handler |-> IF awaited
                                                     THEN "handleRateLimitPauseComplete"
                                                     ELSE "loadQuestion",
                                         error |-> IF out.kind = "return" THEN "none"
                                                   ELSE out.value.name ] ]
           IN IF awaited THEN pauseCompleteResume(gm) ELSE gm ] :
       x \in after }

\* lines 919-923: the RateLimitTimer calls onComplete
handleRateLimitPauseComplete(gw, t) ==
  loadQuestion([ gw EXCEPT !.game.isLoading = TRUE ], Callbacks(gw.game), TRUE, TRUE, t)

\* lines 397-412.  Math.floor((baseScore + timeBonus) * difficultyMultiplier)
\* is computed in IEEE-754 doubles; for the rounds 1..13 and the bonuses 0,
\* 20, .., 200 it is the exact product's floor except 180 * 1.4, which is
\* 251.99999999999997
calculateScore(gm) ==
  LET baseScore == 100
      timeElapsed == getTimePerQuestion(gm.options.difficulty) - gm.timeLeft
      timeBonus == IF gm.options.timerEnabled
                   THEN Max(10 - timeElapsed, 0) * 20 ELSE 0
      tenths == 10 + (gm.currentRound - 1)
  IN IF baseScore + timeBonus = 180 /\ tenths = 14 THEN 251
     ELSE ((baseScore + timeBonus) * tenths) \div 10

\* lines 249-261
useLifeline(gm, type) ==
  [ gm EXCEPT !.lifelines[type] = FALSE,
              !.lifelineUsage[type] = Some(gm.currentRound) ]

\* lines 424-428, 480-484: the pending rate-limit pause begins
beginRateLimitPause(gm, t) ==
  [ gm EXCEPT !.isRateLimitPauseActive = TRUE,
              !.isRateLimitPausePending = FALSE,
              !.timeouts = @ \cup
                 { [ kind |-> "showPause", due |-> t + 2000,
                     seen |-> Seen(Callbacks(gm), FALSE, FALSE, 0, 0) ] } ]

\* lines 414-443: handleWrongAnswer reading lives, pendingPause and
\* isRateLimitPausePending as `seen`
handleWrongAnswer(gm, seen, t) ==
  LET gm1 == [ gm EXCEPT !.lives = @ - 1 ]
  IN IF seen.lives - 1 <= 0 THEN [ gm1 EXCEPT !.gameOver = TRUE ]
     ELSE IF seen.isRateLimitPausePending THEN beginRateLimitPause(gm1, t)
     ELSE IF seen.pendingPause
     THEN [ gm1 EXCEPT !.showPauseScreen = TRUE, !.pendingPause = FALSE ]
     ELSE [ gm1 EXCEPT !.currentRound = @ + 1 ]

\* lines 445-447
requestPause(gm) == [ gm EXCEPT !.pendingPause = TRUE ]

\* lines 449-459
resumeGame(gm) ==
  [ gm EXCEPT !.showPauseScreen = FALSE, !.pendingPause = FALSE,
              !.timeLeft = getTimePerQuestion(gm.options.difficulty),
              !.isTimerRunning = TRUE ]

\* lines 461-472, 501-507: handleAnswer up to its setTimeout
handleAnswer(gm, selectedId, t) ==
  IF gm.feedback.correctId # Null THEN gm
  ELSE [ gm EXCEPT
           !.isTimerRunning = FALSE,
           !.feedback = [ correctId |-> gm.correctCharacterId,
                          selectedId |-> Some(selectedId) ],
           !.timeouts = @ \cup
              { [ kind |-> IF Some(selectedId) = gm.correctCharacterId
                           THEN "correct" ELSE "wrong",
                  due |-> t + 1500,
                  seen |-> Seen(Callbacks(gm), gm.pendingPause,
                                gm.isRateLimitPausePending, gm.lives,
                                calculateScore(gm)) ] },
           !.last = [ handler |-> "handleAnswer", error |-> "none" ] ]

\* lines 472-500: the timeout of a correct answer
handleAnswerCorrect(gm, seen, t) ==
  LET gm1 == [ gm EXCEPT !.score = @ + seen.scoreAdd, !.currentRound = @ + 1 ]
  IN IF seen.isRateLimitPausePending THEN beginRateLimitPause(gm1, t)
     ELSE [ (IF seen.pendingPause
             THEN [ gm1 EXCEPT !.showPauseScreen = TRUE, !.pendingPause = FALSE ]
             ELSE [ gm1 EXCEPT !.score = @ + seen.scoreAdd, !.currentRound = @ + 1 ])
            EXCEPT !.feedback = NoFeedback ]

\* lines 507-510: the timeout of a wrong answer
handleAnswerWrong(gm, seen, t) ==
  [ handleWrongAnswer(gm, seen, t) EXCEPT !.feedback = NoFeedback ]

\* lines 334-365: the hint texts the details give
HintTypes == { "studio", "director", "year", "genre" }
validHints(details) == { h \in HintTypes : details[h] # Null }

\* lines 321-331: handleHint up to its await
handleHint(gw, t) ==
  LET gm == gw.game
  IN IF gm.correctAnimeId = Null \/ ~gm.lifelines.hint \/ gm.isFetchingHint
        \/ gm.hint # Null
     THEN { gw }
     ELSE LET animeId == gm.correctAnimeId[1]
          IN StartCall([ gw EXCEPT !.game.isTimerRunning = FALSE,
                                   !.game.isFetchingHint = TRUE,
                                   !.game.hint = Some("Fetching hint...") ],
                       fetchAnimeDetailsBegin(gw.g, gw.c,
                                              NewFrame("fetchAnimeDetails", animeId),
                                              animeId, t),
                       Awaiting("hint", Callbacks(gm), FALSE,
                                ~gm.gameOver /\ gm.feedback.correctId = Null))

\* handleHintResume using the lifeline whatever the fetch gave
handleHintResume_AlwaysUsed(gw, p, t) ==
  LET out == gw.proc[p].outcome[1]
      running == gw.game.cont[p].running
      gm0 == [ gw.game EXCEPT !.cont[p] = NoCont ]
      shown == IF out.kind = "return" /\ validHints(out.value) # {}
               THEN { [ gm0 EXCEPT !.hint = Some(h) ] : h \in validHints(out.value) }
               ELSE IF out.kind = "return"
               THEN { [ gm0 EXCEPT !.hint = Some("Hint unavailable for this anime. Lifeline not used.") ] }
               ELSE IF out.value.name = "RateLimitError"
               THEN { [ gm0 EXCEPT !.hint = Some("Rate limit hit, hint unavailable. Lifeline not used.") ] }
               ELSE { [ gm0 EXCEPT !.hint = Some("Error fetching hint. Lifeline not used.") ] }
  IN { [ gw EXCEPT !.proc[p] = IdleFrame,
                   !.game = [ useLifeline(gm1, "hint") EXCEPT
                      !.isFetchingHint = FALSE,
                      !.isTimerRunning = IF running THEN TRUE ELSE @,
                      !.last = [ handler |-> "handleHint",
                                 error |-> IF out.kind = "return"
                                           THEN IF validHints(out.value) # {}
                                                THEN "none" ELSE "noHint"
                                           ELSE out.value.name ] ] ] :
       gm1 \in shown }

\* lines 329-393: handleHint after its await; the hint shown is one of the
\* valid ones
handleHintResume(gw, p, t) ==
  LET out == gw.proc[p].outcome[1]
      running == gw.game.cont[p].running
      gm0 == [ gw.game EXCEPT !.cont[p] = NoCont ]
      shown == IF out.kind = "return" /\ validHints(out.value) # {}
               THEN { useLifeline([ gm0 EXCEPT !.hint = Some(h) ], "hint") :
                      h \in validHints(out.value) }
               ELSE IF out.kind = "return"
               THEN { [ gm0 EXCEPT !.hint = Some("Hint unavailable for this anime. Lifeline not used.") ] }
               ELSE IF out.value.name = "RateLimitError"
               THEN { [ gm0 EXCEPT !.hint = Some("Rate limit hit, hint unavailable. Lifeline not used.") ] }
               ELSE { [ gm0 EXCEPT !.hint = Some("Error fetching hint. Lifeline not used.") ] }
  IN { [ gw EXCEPT !.proc[p] = IdleFrame,
                   !.game = [ gm1 EXCEPT
                      !.isFetchingHint = FALSE,
                      !.isTimerRunning = IF running THEN TRUE ELSE @,
                      !.last = [ handler |-> "handleHint",
                                 error |-> IF out.kind = "return"
                                           THEN IF validHints(out.value) # {}
                                                THEN "none" ELSE "noHint"
                                           ELSE out.value.name ] ] ] :
       gm1 \in shown }

\* lines 746-776: the timer effect of the render R, applied to gm
timerEffect(gm, R, t) ==
  IF /\ R.timeLeft > 0 /\ ~R.gameOver /\ R.isTimerRunning
     /\ ~R.showPauseScreen /\ R.options.timerEnabled
  THEN [ gm EXCEPT !.countdown = Some(t + 1000) ]
  ELSE IF /\ R.timeLeft = 0 /\ R.isTimerRunning
          /\ ~R.showPauseScreen /\ R.options.timerEnabled
  THEN [ handleWrongAnswer(gm, Seen(Callbacks(R), R.pendingPause,
                                    R.isRateLimitPausePending, R.lives, 0), t)
         EXCEPT !.countdown = Null ]
  ELSE [ gm EXCEPT !.countdown = Null ]

RoundEffectPending(gm) == gm.effectRound # Some(gm.currentRound)
TimerEffectPending(gm) == gm.timerDeps # Some(timerEffectDeps(gm))

\* lines 742-776: the effects of the render of gw.game whose dependencies
\* changed, in the order of their declaration
runEffects(gw, t) ==
  LET R == gw.game
      gw1 == [ gw EXCEPT !.game.effectRound = Some(R.currentRound),
                         !.game.timerDeps = Some(timerEffectDeps(R)) ]
      loaded == IF RoundEffectPending(R)
                THEN loadQuestion(gw1, Callbacks(R), FALSE, FALSE, t)
                ELSE { gw1 }
  IN { [ x EXCEPT !.game =
           [ (IF TimerEffectPending(R) THEN timerEffect(x.game, R, t) ELSE x.game)
             EXCEPT !.last = [ handler |-> "effects", error |-> "none" ] ] ] :
       x \in loaded }

---------------------------------------------------------------------------
(* SpecGame: one game over the client.  An awaited outcome is taken up     *)
(* before anything else happens, then the effects run, then the next       *)
(* event: a click, a timer or an answer of the network.  The network      *)
(* answers at once: no time passes and the player does not click while a   *)
(* request is under way; time passes from one due timer to the next.       *)

EffectsPending == RoundEffectPending(game) \/ TimerEffectPending(game)

Steady == NoneDone /\ ~EffectsPending

\* the player clicks early in a question's time, or not at all, and while
\* no request is under way
Thinking ==
  /\ \A p \in Procs : proc[p].pc \in { "idle", "done" }
  /\ game.timeLeft >= getTimePerQuestion(game.options.difficulty) - MaxThink

\* the awaiting function of the component takes the outcome of invocation p
GameContinue(p) ==
  /\ proc[p].pc = "done"
  /\ \/ /\ game.cont[p].kind = "load"
        /\ \E x \in loadQuestionResume(GW, p, now) : ApplyGame(x)
     \/ /\ game.cont[p].kind = "preload"
        /\ \E x \in preloadNextQuestionResume(GW, p, now) : ApplyGame(x)
     \/ /\ game.cont[p].kind = "hint"
        /\ \E x \in handleHintResume(GW, p, now) : ApplyGame(x)

GameEffects ==
  /\ NoneDone
  /\ EffectsPending
  /\ \E x \in runEffects(GW, now) : ApplyGame(x)

Handled(gm, handler) == [ gm EXCEPT !.last = [ handler |-> handler, error |-> "none" ] ]

\* a callback of setTimeout runs
TimeoutFire(to) ==
  /\ Steady
  /\ to \in game.timeouts
  /\ now >= to.due
  /\ LET gw == [ GW EXCEPT !.game.timeouts = @ \ { to } ]
     IN IF to.kind = "correct"
        THEN ApplyGame([ gw EXCEPT !.game =
               Handled(handleAnswerCorrect(gw.game, to.seen, now), "handleAnswerCorrect") ])
        ELSE IF to.kind = "wrong"
        THEN ApplyGame([ gw EXCEPT !.game =
               Handled(handleAnswerWrong(gw.game, to.seen, now), "handleAnswerWrong") ])
        ELSE IF to.kind = "showPause"
        THEN ApplyGame([ gw EXCEPT !.game =
               Handled([ gw.game EXCEPT !.showPauseScreen = TRUE ], "showPause") ])
        ELSE \E x \in loadQuestion(gw, to.seen.cb, FALSE, FALSE, now) : ApplyGame(x)

\* lines 754-759: the interval of the timer effect
CountdownFire ==
  /\ Steady
  /\ game.countdown # Null
  /\ now >= game.countdown[1]
  /\ ApplyGame([ GW EXCEPT !.game =
       Handled([ game EXCEPT !.timeLeft = @ - 1, !.countdown = Null ], "countdown") ])

\* lines 105-109: the RateLimitTimer reaches 0
RateLimitTimerFire ==
  /\ Steady
  /\ game.rateLimitTimer # Null
  /\ now >= game.rateLimitTimer[1]
  /\ \E x \in handleRateLimitPauseComplete(GW, now) : ApplyGame(x)

\* the answers the player picks from: the correct one and a wrong one
AnswerChoices ==
  LET wrong == { id \in game.characterOptions : Some(id) # game.correctCharacterId }
  IN { id \in game.characterOptions :
         Some(id) = game.correctCharacterId \/ \A other \in wrong : id <= other }

\* the player clicks an answer
ClickAnswer(selectedId) ==
  /\ Steady
  /\ Thinking
  /\ Screen(game) = "main"
  /\ game.feedback.correctId = Null
  /\ selectedId \in game.characterOptions
  /\ ApplyGame([ GW EXCEPT !.game = handleAnswer(game, selectedId, now) ])

\* the player clicks "Pause After Answer"
ClickPause ==
  /\ Steady
  /\ Thinking
  /\ Screen(game) = "main"
  /\ game.options.timerEnabled
  /\ ~game.pendingPause
  /\ ApplyGame([ GW EXCEPT !.game = Handled(requestPause(game), "requestPause") ])

\* the player clicks "Resume" on the pause screen
ClickResume ==
  /\ Steady
  /\ Screen(game) = "paused"
  /\ ApplyGame([ GW EXCEPT !.game = Handled(resumeGame(game), "resumeGame") ])

\* the player clicks the hint lifeline
ClickHint ==
  /\ Steady
  /\ Thinking
  /\ Screen(game) = "main"
  /\ game.feedback.correctId = Null
  /\ game.correctAnimeId # Null /\ game.lifelines.hint
  /\ ~game.isFetchingHint /\ game.hint = Null
  /\ \E x \in handleHint(GW, now) : ApplyGame(x)

\* the decoded body of a successful answer: a pool of 4 anime, one
\* character with an image for each, their titles; details with some of the
\* hinted fields, or with none
GameData(f) ==
  IF f.step = "pool" THEN { Some(<<1, 2, 3, 4>>) }
  ELSE IF f.step = "chars"
  THEN { Some({ <<a, { Char(10 * a, "img") }>> : a \in Range(f.ids) }) }
  ELSE IF f.step = "titles" THEN { Some({ <<a, Title(a)>> : a \in Range(f.ids) }) }
  ELSE { Some(Some([ studio |-> Some("studio"), director |-> Null,
                     year |-> Some(2000), genre |-> Null ])),
         Some(Some([ studio |-> Null, director |-> Null,
                     year |-> Null, genre |-> Null ])) }

\* a 429 for the first request of a question and for the details, no
\* response for the details
GameFailures(f) ==
  IF f.step = "pool" THEN { HttpError(429, TRUE, Null, Null) }
  ELSE IF f.step = "details"
  THEN { HttpError(429, TRUE, Null, Null), NoResponse("network") }
  ELSE {}

EnvGame(f) ==
  IF f.pc # "awaitNet" THEN {}
  ELSE { OkResponse(Null, data) : data \in GameData(f) } \cup GameFailures(f)

\* time passes until the next of the pending timers is due, while no
\* request is under way
GameTick ==
  LET dues == { to.due : to \in game.timeouts }
              \cup { d[1] : d \in { game.countdown, game.rateLimitTimer } \ { Null } }
              \cup BagToSet(pauseTimers) \cup BagToSet(resetTimers)
  IN /\ Steady
     /\ \A p \in Procs : proc[p].pc \in { "idle", "done" }
     /\ \A d \in dues : d > now
     /\ \E t \in dues : (\A d \in dues : t <= d) /\ Tick(t)

\* lines 40-50, 129-182: the options of the game
GameOptions ==
  { [ difficulty |-> "hard", timerEnabled |-> enabled ] : enabled \in BOOLEAN }

InitGame ==
  /\ InitGov
  /\ topAnimeIdsCache = {}
  /\ animeDetailsCache = {}
  /\ game \in { MountedGame(options) : options \in GameOptions }

NextGame ==
  \/ \E p \in Procs : GameContinue(p)
  \/ GameEffects
  \/ \E to \in game.timeouts : TimeoutFire(to)
  \/ CountdownFire
  \/ RateLimitTimerFire
  \/ \E selectedId \in AnswerChoices : ClickAnswer(selectedId)
  \/ ClickPause
  \/ ClickResume
  \/ ClickHint
  \/ \E p \in Procs : \E resp \in EnvGame(proc[p]) : ~EffectsPending /\ Respond(p, resp)
  \/ \E p \in Procs : \E online \in BOOLEAN : ~EffectsPending /\ ProbeDone(p, online)
  \/ \E due \in BagToSet(pauseTimers) : Steady /\ PauseTimerFire(due)
  \/ \E due \in BagToSet(resetTimers) : Steady /\ ResetTimerFire(due)
  \/ GameTick

SpecGame == InitGame /\ [][NextGame]_vars

---------------------------------------------------------------------------
(* Claims checked under Spec *)

\* C1: remainingRequests is never negative, whatever the requests, the
\* responses (with any x-ratelimit-remaining header or none), the failures
\* and the timer firings.
C1_RemainingNeverNegative == remainingRequests >= 0

\* a response with x-ratelimit-remaining below 60 was handled: both floors acted
C1_Witness ==
  /\ remainingRequests = 0
  /\ \E p \in Procs :
       /\ proc[p].pc = "done"
       /\ proc[p].resp # Null
       /\ proc[p].resp[1].kind = "ok"
       /\ proc[p].resp[1].remaining = Some(30)

\* C6: while the pause deadline retryAfterTimestamp is set and lies strictly
\* in the future, no step (request, response, further throttling, timer)
\* unsets it: getRateLimitStatus keeps reporting retryUntil.
C6_PauseActiveUntilDeadline ==
  [][ (retryAfterTimestamp # Null /\ Seconds(now) < retryAfterTimestamp[1])
        => getRateLimitStatus.retryUntil' # Null ]_vars

\* C7: when a pause timer has fired (no earlier than retryAfterSeconds and
\* the 100 ms buffer after the throttling event), remainingRequests is the
\* per-minute maximum and retryAfterTimestamp is unset.
C7_PauseTimerResets ==
  fired = "pauseTimer" =>
    /\ remainingRequests = ACTUAL_RATE_LIMIT_PER_MINUTE
    /\ retryAfterTimestamp = Null

\* the timer of a 1 s pause fired once 1100 ms had elapsed
C7_Witness == fired = "pauseTimer" /\ now >= 1100 /\ pauseTimers = EmptyBag

\* C8: a 429 whose headers carry x-ratelimit-reset = T makes the call fail
\* with RateLimitError(max(1, T - now), T), for T before and after now and
\* whether or not retry-after is present too.
C8_ResetHeader ==
  \A p \in Procs :
    ( /\ proc[p].pc = "done"
      /\ proc[p].resp # Null
      /\ proc[p].resp[1].kind = "http"
      /\ proc[p].resp[1].status = 429
      /\ proc[p].resp[1].headers
      /\ proc[p].resp[1].reset # Null )
    => LET T == proc[p].resp[1].reset[1]
           nowSec == proc[p].nowSec[1]
       IN /\ proc[p].outcome[1].kind = "throw"
          /\ proc[p].outcome[1].value = RateLimitError(Max(1, T - nowSec), T)

\* a 429 with both headers, its reset time already reached
C8_Witness ==
  \E p \in Procs :
    /\ ThrownRateLimit(proc[p])
    /\ proc[p].resp[1].reset # Null
    /\ proc[p].resp[1].retryAfter # Null
    /\ proc[p].resp[1].reset[1] <= proc[p].nowSec[1]

\* the call p makes in this step finds its key in the cache
CacheHit(p) ==
  /\ proc[p].pc = "idle"
  /\ \/ /\ proc[p]'.fn = "fetchTopAnimeIds"
        /\ MapHas(topAnimeIdsCache, proc[p]'.arg)
     \/ /\ proc[p]'.fn = "fetchAnimeDetails"
        /\ MapHas(animeDetailsCache, proc[p]'.arg)

\* C10: a call of fetchTopAnimeIds or fetchAnimeDetails that finds its key in
\* the cache returns the cached value in the same step, makes no network
\* call, and leaves the governor (remainingRequests, retryAfterTimestamp,
\* window start, timers) and both caches as they were.
C10_CacheHit ==
  [][ \A p \in Procs :
        CacheHit(p) =>
          /\ Returned(proc[p]')
          /\ proc[p]'.outcome[1].value =
               IF proc[p]'.fn = "fetchTopAnimeIds"
               THEN MapGet(topAnimeIdsCache, proc[p]'.arg)
               ELSE MapGet(animeDetailsCache, proc[p]'.arg)
          /\ proc[p]'.netCalls = 0
          /\ UNCHANGED govVars
          /\ UNCHANGED cacheVars ]_vars

\* a call answered from the cache that an earlier call filled, the governor
\* having counted that earlier call
C10_Witness ==
  \E p \in Procs :
    /\ proc[p].fn = "fetchTopAnimeIds"
    /\ Returned(proc[p])
    /\ proc[p].netCalls = 0
    /\ MapHas(topAnimeIdsCache, proc[p].arg)
    /\ proc[p].outcome[1].value = MapGet(topAnimeIdsCache, proc[p].arg)
    /\ remainingRequests < RATE_LIMIT_MAX

IsFetcher(f) == f.fn \in { "fetchTopAnimeIds", "fetchAnimeDetails" }

\* the cache the fetcher f works on, in the state given by both caches
CacheOf(f, top, det) == IF f.fn = "fetchTopAnimeIds" THEN top ELSE det

\* what the response f received decodes to: the ids of data.Page.media, or
\* data.Media
Decoded(f) ==
  IF f.fn = "fetchTopAnimeIds" THEN f.resp[1].data[1] ELSE f.resp[1].data[1][1]

\* the activation of p took a step of a fetcher (its call included)
FetcherStep(p) == IsFetcher(proc[p]') /\ proc[p]' # proc[p]

\* C11: a fetcher that returns after a cache miss has stored the value it
\* returns under its key; no step changes or removes an entry; and a later
\* call with a key that is in the cache returns the stored value without a
\* network call.
C11_MissFillsCache ==
  [][ /\ \A p \in Procs :
           FetcherStep(p) =>
             /\ (proc[p].pc = "awaitNet" /\ Returned(proc[p]')) =>
                  /\ MapHas(CacheOf(proc[p]', topAnimeIdsCache', animeDetailsCache'),
                            proc[p]'.arg)
                  /\ MapGet(CacheOf(proc[p]', topAnimeIdsCache', animeDetailsCache'),
                            proc[p]'.arg) = proc[p]'.outcome[1].value
                  /\ proc[p]'.outcome[1].value = Decoded(proc[p]')
             /\ (proc[p].pc = "idle"
                 /\ MapHas(CacheOf(proc[p]', topAnimeIdsCache, animeDetailsCache),
                           proc[p]'.arg)) =>
                  /\ Returned(proc[p]')
                  /\ proc[p]'.netCalls = 0
                  /\ proc[p]'.outcome[1].value =
                       MapGet(CacheOf(proc[p]', topAnimeIdsCache, animeDetailsCache),
                              proc[p]'.arg)
      /\ topAnimeIdsCache \subseteq topAnimeIdsCache'
      /\ animeDetailsCache \subseteq animeDetailsCache' ]_vars

\* the second call returns from the cache what the first call fetched
C11_Witness ==
  \E p \in Procs :
    /\ proc[p].fn = "fetchAnimeDetails"
    /\ Returned(proc[p])
    /\ proc[p].netCalls = 0
    /\ calls = 2
    /\ animeDetailsCache = { <<proc[p].arg, proc[p].outcome[1].value>> }
    /\ topAnimeIdsCache = {}

\* C12: a fetcher whose network call fails throws exactly what
\* rateLimitedClient.request threw (a RateLimitError included), and a fetcher
\* that fails in any way (a response without Page.media or Media included)
\* leaves both caches as they were.
C12_FailureLeavesCache ==
  [][ \A p \in Procs :
        (FetcherStep(p) /\ Thrown(proc[p]')) =>
          /\ UNCHANGED cacheVars
          /\ proc[p].pc = "awaitNet" =>
               LET s == requestSettled(Gov, proc[p]'.resp[1], now)
               IN IF s.res.kind = "throw"
                  THEN proc[p]'.outcome[1].value = s.res.value
                  ELSE /\ proc[p]'.resp[1].data \in { Null, Some(Null) }
                       /\ proc[p]'.outcome[1].value.name = "Error"
          /\ proc[p].pc = "awaitProbe" =>
               \E online \in BOOLEAN :
                 proc[p]'.outcome[1].value =
                   requestProbed(Gov, proc[p].error[1], online, now).res.value ]_vars

\* fetchAnimeDetails threw the RateLimitError of a 429 while the other cache
\* held the entry of an earlier call
C12_Witness ==
  \E p \in Procs :
    /\ proc[p].fn = "fetchAnimeDetails"
    /\ ThrownRateLimit(proc[p])
    /\ proc[p].resp[1].status = 429
    /\ animeDetailsCache = {}
    /\ topAnimeIdsCache # {}

PauseInForce == retryAfterTimestamp # Null /\ Seconds(now) < retryAfterTimestamp[1]

\* C14: a step that sets a pause leaves no timer pending but the one of that
\* pause, a step that handles a success leaves no pause timer pending, and so
\* no timer callback runs while a pause is in force.
C14_StaleTimersCancelled ==
  [][ /\ BagCardinality(pauseTimers') > BagCardinality(pauseTimers) =>
           /\ rateLimitResetTimer' = Null
           /\ BagCardinality(pauseTimers') = 1
      /\ (\E p \in Procs : /\ proc[p].pc = "awaitNet"
                           /\ proc[p]'.resp # Null
                           /\ proc[p]'.resp[1].kind = "ok") =>
           pauseTimers' = EmptyBag
      /\ fired' # "none" => ~PauseInForce ]_vars

\* C18: a call answered with an HTTP status >= 400 other than 429 throws the
\* error rawRequest rejected with, not a RateLimitError, and leaves
\* remainingRequests, retryAfterTimestamp and the timers as they were.
C18_HttpErrorPropagated ==
  [][ \A p \in Procs :
        ( /\ proc[p].pc = "awaitNet"
          /\ proc[p]'.resp # Null
          /\ proc[p]'.resp[1].kind = "http"
          /\ proc[p]'.resp[1].status >= 400
          /\ proc[p]'.resp[1].status # 429 )
        => /\ Thrown(proc[p]')
           /\ proc[p]'.outcome[1].value = TransportError(proc[p]'.resp[1])
           /\ proc[p]'.outcome[1].value.name # "RateLimitError"
           /\ UNCHANGED <<remainingRequests, retryAfterTimestamp, pauseTimers,
                          rateLimitResetTimer>> ]_vars

\* a 500 answered during a pause
C18_Witness ==
  \E p \in Procs :
    /\ Thrown(proc[p])
    /\ proc[p].resp[1].status = 500
    /\ proc[p].outcome[1].value.name = "ClientError"
    /\ PauseInForce

\* C19: when the probe after a NetworkError reports the network unreachable,
\* the call throws that NetworkError itself, retryAfterTimestamp and
\* remainingRequests stay as they were and no pause timer is scheduled.
C19_OutagePropagated ==
  [][ \A p \in Procs :
        ProbeDone(p, FALSE) =>
          /\ Thrown(proc[p]')
          /\ proc[p]'.outcome[1].value = TransportError(proc[p].resp[1])
          /\ proc[p]'.outcome[1].value.name # "RateLimitError"
          /\ UNCHANGED <<remainingRequests, retryAfterTimestamp, pauseTimers,
                         rateLimitResetTimer>> ]_vars

\* a NetworkError thrown on, with a window start recorded
C19_Witness ==
  \E p \in Procs :
    /\ Thrown(proc[p])
    /\ proc[p].resp[1].kind = "network"
    /\ proc[p].outcome[1].value.name = "TypeError"
    /\ rateLimitWindowStartTimestamp # Null
    /\ pauseTimers = EmptyBag

\* C20: when the probe after a NetworkError reports the network reachable,
\* the call throws RateLimitError(max(1, W + 60 - now), W + 60), W being
\* rateLimitWindowStartTimestamp, and the pause is set to now plus that wait,
\* with its timer.
C20_NetworkErrorHeuristic ==
  [][ \A p \in Procs :
        ProbeDone(p, TRUE) =>
          LET resetTimestamp == rateLimitWindowStartTimestamp[1] + 60
              retrySeconds == Max(1, resetTimestamp - Seconds(now))
          IN /\ proc[p].resp[1].kind = "network"
             /\ Thrown(proc[p]')
             /\ proc[p]'.outcome[1].value = RateLimitError(retrySeconds, resetTimestamp)
             /\ retryAfterTimestamp' = Some(Seconds(now) + retrySeconds)
             /\ pauseTimers' =
                  pauseTimers (+) SetToBag({now + retrySeconds * 1000 + 100}) ]_vars

\* the heuristic applied when the window had already ended: the wait is 1
C20_Witness ==
  \E p \in Procs :
    /\ ThrownRateLimit(proc[p])
    /\ proc[p].resp[1].kind = "network"
    /\ proc[p].outcome[1].value.retryAfterSeconds = Some(1)
    /\ proc[p].outcome[1].value.resetTimestamp[1] < proc[p].nowSec[1]
    /\ retryAfterTimestamp = Some(proc[p].nowSec[1] + 1)

\* C21: a successful call made when retryAfterTimestamp has elapsed and
\* every pause timer is overdue without having run heals the governor: afterwards retryAfterTimestamp is
\* no longer set to an elapsed time, and the 60 s reset of remainingRequests
\* is scheduled.
C21_SelfHealing ==
  [][ \A p \in Procs :
        ( /\ proc[p].pc = "awaitNet"
          /\ proc[p]'.resp # Null
          /\ proc[p]'.resp[1].kind = "ok"
          /\ retryAfterTimestamp # Null
          /\ Seconds(now) >= retryAfterTimestamp[1]
          /\ \A due \in BagToSet(pauseTimers) : now > due )
        => /\ retryAfterTimestamp' = Null \/ retryAfterTimestamp'[1] > Seconds(now)
           /\ rateLimitResetTimer' # Null ]_vars

\* C24: a successful call leaves remainingRequests at max(0, max(0, H - 60) - 1)
\* when its response carries x-ratelimit-remaining = H, and at
\* max(0, remainingRequests - 1) when it carries no such header.
C24_RemainingAfterSuccess ==
  [][ \A p \in Procs :
        ( /\ proc[p].pc = "awaitNet"
          /\ proc[p]'.resp # Null
          /\ proc[p]'.resp[1].kind = "ok" )
        => remainingRequests' =
             IF proc[p]'.resp[1].remaining # Null
             THEN Max(0, Max(0, proc[p]'.resp[1].remaining[1] - 60) - 1)
             ELSE Max(0, remainingRequests - 1) ]_vars

\* the second call answered with x-ratelimit-remaining: 95
C24_Witness ==
  \E p \in Procs :
    /\ proc[p].pc = "done"
    /\ proc[p].netCalls = 1
    /\ proc[p].resp[1].kind = "ok"
    /\ proc[p].resp[1].remaining = Some(95)
    /\ remainingRequests = 34
    /\ calls = 2

\* C25: at most one 60 s timer is pending, the one rateLimitResetTimer refers
\* to; a successful call cancels the pending one and schedules a new one, due
\* 60 s later, exactly when retryAfterTimestamp is unset: a success while a
\* pause is set leaves none pending.
C25_OneFallbackTimer ==
  /\ [](/\ BagCardinality(resetTimers) <= 1
        /\ resetTimers = IF rateLimitResetTimer = Null THEN EmptyBag
                         ELSE SetToBag({rateLimitResetTimer[1]}))
  /\ [][ \A p \in Procs :
           ( /\ proc[p].pc = "awaitNet"
             /\ proc[p]'.resp # Null
             /\ proc[p]'.resp[1].kind = "ok" )
           => resetTimers' = IF retryAfterTimestamp = Null
                             THEN SetToBag({now + 60 * 1000})
                             ELSE EmptyBag ]_vars

\* the second of two successful calls replaced the timer of the first
C25_Witness ==
  \E p \in Procs :
    /\ proc[p].pc = "done"
    /\ proc[p].netCalls = 1
    /\ proc[p].resp[1].kind = "ok"
    /\ calls = 2
    /\ remainingRequests = RATE_LIMIT_MAX - 2
    /\ now = 1000
    /\ resetTimers = SetToBag({61000})

\* p issues a call of rateLimitedClient.request in this step
RequestBegun(p) == proc[p]'.netCalls = proc[p].netCalls + 1

\* C26: a step that issues a request sets rateLimitWindowStartTimestamp to the
\* current second when remainingRequests is 30 and leaves it as it is
\* otherwise; no other step (success, 429, failure, probe, timer, clock)
\* changes it.
C26_WindowStart ==
  [][ IF \E p \in Procs : RequestBegun(p)
      THEN rateLimitWindowStartTimestamp' =
             IF remainingRequests = RATE_LIMIT_MAX
             THEN Some(Seconds(now))
             ELSE rateLimitWindowStartTimestamp
      ELSE UNCHANGED rateLimitWindowStartTimestamp ]_vars

\* a second window: the second call was issued at second 60 or later, with
\* remainingRequests at 30
C26_WitnessNewWindow ==
  \E p \in Procs :
    /\ proc[p].pc = "awaitNet"
    /\ calls = 2
    /\ rateLimitWindowStartTimestamp # Null
    /\ rateLimitWindowStartTimestamp[1] >= 60
    /\ remainingRequests = RATE_LIMIT_MAX

\* C28: every step that sets a pause (the 429 branch with a reset header, a
\* retry-after header or neither, and the network heuristic) throws a
\* RateLimitError whose retryAfterSeconds is at least 1, and leaves
\* retryAfterTimestamp strictly after the second of the step.
C28_ThrottleAtLeastOneSecond ==
  [][ \A p \in Procs :
        ( /\ proc[p].pc \in { "awaitNet", "awaitProbe" }
          /\ BagCardinality(pauseTimers') > BagCardinality(pauseTimers) )
        => /\ proc'[p].error # Null \/ ThrownRateLimit(proc'[p])
           /\ ThrownRateLimit(proc'[p])
                => proc'[p].outcome[1].value.retryAfterSeconds[1] >= 1
           /\ retryAfterTimestamp' # Null
           /\ retryAfterTimestamp'[1] > Seconds(now) ]_vars

\* C35: remainingRequests is never above RATE_LIMIT_MAX, whatever
\* x-ratelimit-remaining header the responses carried.
C35_RemainingAtMostMax ==
  remainingRequests <= RATE_LIMIT_MAX

\* C36: when a call has ended with a RateLimitError (429 with a reset header,
\* 429 with retry-after or neither, network heuristic), retryUntil of
\* getRateLimitStatus is the resetTimestamp the error carries.
C36_DeadlineIsResetTimestamp ==
  \A p \in Procs :
    ThrownRateLimit(proc[p])
    => getRateLimitStatus.retryUntil = proc[p].outcome[1].value.resetTimestamp

\* C38: the step that handles a rejected rawRequest (429, another HTTP
\* error, a NetworkError, any other error) and the step that handles the
\* answer of the probe leave remainingRequests, rateLimitResetTimer and the
\* pending 60 s timers as they were; remainingRequests changes only in a step
\* that handles a successful response or runs a timer callback.
C38_FailureLeavesCount ==
  [][ /\ \A p \in Procs :
           ( \/ /\ proc[p].pc = "awaitNet"
                /\ proc[p]'.resp # Null
                /\ proc[p]'.resp[1].kind # "ok"
             \/ /\ proc[p].pc = "awaitProbe"
                /\ proc[p]' # proc[p] )
           => UNCHANGED <<remainingRequests, rateLimitResetTimer, resetTimers>>
      /\ remainingRequests' # remainingRequests
           => \/ fired' # "none"
              \/ \E p \in Procs :
                   /\ proc[p].pc = "awaitNet"
                   /\ proc[p]'.resp # Null
                   /\ proc[p]'.resp[1].kind = "ok" ]_vars

\* a 429 answered while the 60 s timer is pending and the count is below the
\* maximum: the timer and the count are as they were
C38_Witness ==
  \E p \in Procs :
    /\ ThrownRateLimit(proc[p])
    /\ proc[p].resp[1].kind = "http"
    /\ rateLimitResetTimer # Null
    /\ resetTimers # EmptyBag
    /\ remainingRequests < RATE_LIMIT_MAX

\* the same after the network heuristic
C38_WitnessHeuristic ==
  \E p \in Procs :
    /\ ThrownRateLimit(proc[p])
    /\ proc[p].resp[1].kind = "network"
    /\ rateLimitResetTimer # Null
    /\ remainingRequests < RATE_LIMIT_MAX

---------------------------------------------------------------------------
(* Claims checked under SpecAsm *)

IsGqc(f) == f.fn = "getQuestionCharacters"

TerminalMessage == "Failed to get question characters after multiple attempts"

\* the activation of p took a step of getQuestionCharacters
GqcStep(p) == IsGqc(proc[p]) /\ IsGqc(proc[p]') /\ proc[p]' # proc[p]

\* C2: when a network call of getQuestionCharacters fails with RateLimitError
\* (429 or the network heuristic, at any step of any attempt), that step ends
\* the invocation with that very error: no further call, attempts unchanged.
C2_RateLimitNotRetried ==
  [][ \A p \in Procs :
        (GqcStep(p) /\ proc[p]'.caught = "RateLimitError") =>
          /\ ThrownRateLimit(proc[p]')
          /\ proc[p]'.outcome[1].value = proc[p]'.error[1]
          /\ retryAfterTimestamp' =
               Some(Seconds(now) + proc[p]'.outcome[1].value.retryAfterSeconds[1])
          /\ proc[p]'.netCalls = proc[p].netCalls
          /\ proc[p]'.attempts = proc[p].attempts ]_vars

\* a RateLimitError from the title batch of the third attempt
C2_Witness ==
  \E p \in Procs :
    /\ IsGqc(proc[p])
    /\ ThrownRateLimit(proc[p])
    /\ proc[p].attempts = 2
    /\ proc[p].step = "titles"

\* C3: every failure other than RateLimitError adds one to attempts and
\* restarts from the pool request with the same parameters; the terminal
\* error is thrown exactly when the third attempt fails, never before, and
\* nothing else than it or a RateLimitError is ever thrown.
C3_RetryPolicy ==
  [][ \A p \in Procs :
        GqcStep(p) =>
          /\ proc[p]'.caught = "other" =>
               /\ proc[p]'.attempts = proc[p].attempts + 1
               /\ IF proc[p]'.attempts = maxAttempts
                  THEN /\ Thrown(proc[p]')
                       /\ proc[p]'.outcome[1].value = Error(TerminalMessage)
                       /\ proc[p]'.netCalls = proc[p].netCalls
                  ELSE /\ proc[p]'.pc = "awaitNet"
                       /\ proc[p]'.step = "pool"
                       /\ proc[p]'.arg = proc[p].arg
                       /\ proc[p]'.poolSize = proc[p].poolSize
                       /\ proc[p]'.netCalls = proc[p].netCalls + 1
          /\ proc[p]'.caught # "other" => proc[p]'.attempts = proc[p].attempts
          /\ (Thrown(proc[p]') /\ ~ThrownRateLimit(proc[p]')) =>
               /\ proc[p]'.caught = "other"
               /\ proc[p]'.attempts = maxAttempts ]_vars

\* the third attempt failed with an HTTP error of its title batch, after two
\* attempts that failed earlier in the pipeline
C3_Witness ==
  \E p \in Procs :
    /\ IsGqc(proc[p])
    /\ Thrown(proc[p])
    /\ proc[p].outcome[1].value = Error(TerminalMessage)
    /\ proc[p].attempts = maxAttempts
    /\ proc[p].step = "titles"
    /\ proc[p].error[1].name = "ClientError"
    /\ proc[p].netCalls = 5

IsInjective(seq) == \A i, j \in 1..Len(seq) : i # j => seq[i] # seq[j]

\* C4: a round built from a pool of at least 4 pairwise distinct ids has
\* exactly 4 options, with pairwise distinct character ids, each picked from
\* the (imaged) characters of its own anime, the 4 anime pairwise distinct
\* ids of the pool.
C4_FourDistinctOptions ==
  \A p \in Procs :
    ( /\ IsGqc(proc[p])
      /\ Returned(proc[p])
      /\ Len(proc[p].animeIds) >= 4
      /\ IsInjective(proc[p].animeIds) )
    => LET round == proc[p].outcome[1].value
           origins == proc[p].originAnimeIds
       IN /\ Len(round.characters) = 4
          /\ IsInjective([i \in 1..4 |-> round.characters[i].id])
          /\ Len(origins) = 4
          /\ IsInjective(origins)
          /\ \A i \in 1..4 :
               /\ origins[i] \in Range(proc[p].animeIds)
               /\ MapHas(proc[p].mediaMap, origins[i])
               /\ \E ch \in MapGet(proc[p].mediaMap, origins[i]) :
                    ch.id = round.characters[i].id

\* a round built although the batch listed character 10 under every anime
C4_Witness ==
  \E p \in Procs :
    /\ IsGqc(proc[p])
    /\ Returned(proc[p])
    /\ IsInjective(proc[p].animeIds)
    /\ \A m \in proc[p].mediaMap : \E ch \in m[2] : ch.id = 10
    /\ \E i \in 1..4 : proc[p].outcome[1].value.characters[i].id = 10

\* C5: in every round returned, correctCharacterId is the id of exactly one
\* option, and correctAnimeId is the sampled anime from whose characters that
\* option was picked.
C5_CorrectAnswer ==
  \A p \in Procs :
    (IsGqc(proc[p]) /\ Returned(proc[p]))
    => LET round == proc[p].outcome[1].value
           hits == { i \in 1..Len(round.characters) :
                       round.characters[i].id = round.correctCharacterId }
       IN /\ Cardinality(hits) = 1
          /\ \A i \in hits :
               /\ round.correctAnimeId = proc[p].originAnimeIds[i]
               /\ round.correctAnimeId \in Range(proc[p].selectedAnimeIds)
               /\ \E ch \in MapGet(proc[p].mediaMap, round.correctAnimeId) :
                    ch.id = round.correctCharacterId

\* a round whose correct option is not the first
C5_Witness ==
  \E p \in Procs :
    /\ IsGqc(proc[p])
    /\ Returned(proc[p])
    /\ proc[p].outcome[1].value.correctCharacterId
         = proc[p].outcome[1].value.characters[3].id

\* C9: a 429 without x-ratelimit-reset ends the invocation with
\* RateLimitError(R, now + R), R being the retry-after header if present and
\* 60 otherwise; getQuestionCharacters hands exactly that error on and never
\* goes on after catching a RateLimitError.
C9_RetryAfterHeader ==
  \A p \in Procs :
    /\ ( /\ proc[p].resp # Null
         /\ proc[p].resp[1].kind = "http"
         /\ proc[p].resp[1].status = 429
         /\ proc[p].resp[1].headers
         /\ proc[p].resp[1].reset = Null )
       => LET R == IF proc[p].resp[1].retryAfter # Null
                   THEN proc[p].resp[1].retryAfter[1] ELSE 60
          IN /\ proc[p].pc = "done"
             /\ proc[p].outcome[1].kind = "throw"
             /\ proc[p].outcome[1].value = RateLimitError(R, proc[p].nowSec[1] + R)
    /\ proc[p].caught = "RateLimitError" => ThrownRateLimit(proc[p])

\* the character batch of the second attempt answered 429 with retry-after: 45
C9_Witness ==
  \E p \in Procs :
    /\ IsGqc(proc[p])
    /\ proc[p].pc = "done"
    /\ proc[p].resp[1].status = 429
    /\ proc[p].resp[1].reset = Null
    /\ proc[p].resp[1].retryAfter = Some(45)
    /\ proc[p].attempts = 1
    /\ proc[p].step = "chars"
    /\ proc[p].outcome[1].value = RateLimitError(45, proc[p].nowSec[1] + 45)

\* the sampled anime (positions of selectedAnimeIds) for which the batch lists
\* a character with an image
Eligible(media, selectedAnimeIds) ==
  { i \in 1..Len(selectedAnimeIds) :
      \E m \in media : m[1] = selectedAnimeIds[i] /\ \E ch \in m[2] : ch.image # "" }

C22_OptionsHaveImage ==
  \A p \in Procs :
    IsGqc(proc[p]) =>
      /\ \A m \in proc[p].mediaMap : \A ch \in m[2] : ch.image # ""
      /\ \A i \in 1..Len(proc[p].selectedCharsBase) :
           proc[p].selectedCharsBase[i].image # ""
      /\ Returned(proc[p]) =>
           \A i \in 1..Len(proc[p].outcome[1].value.characters) :
             proc[p].outcome[1].value.characters[i].image # ""

\* a round returned although the batch listed, for a sampled anime, a
\* character without an image
C22_Witness ==
  \E p \in Procs :
    /\ IsGqc(proc[p])
    /\ Returned(proc[p])
    /\ \E m \in proc[p].mediaMap :
         /\ m[1] \in Range(proc[p].originAnimeIds)
         /\ \E e \in CatalogOwn : /\ e[1] = m[1]
                                  /\ m[2] # e[2]
                                  /\ m[2] = WithImage(e[2])

\* C23: an invocation of getQuestionCharacters never counts more than 3
\* attempts nor makes more than 9 calls of rateLimitedClient.request, and,
\* every call and probe being answered, it ends by returning or throwing.
C23_Terminates ==
  /\ [](\A p \in Procs : proc[p].attempts <= maxAttempts
                         /\ proc[p].netCalls <= 3 * maxAttempts)
  /\ \A p \in Procs :
       (IsGqc(proc[p]) /\ proc[p].pc # "done") ~> (proc[p].pc = "done")

\* the third attempt failed at its title batch: 9 calls were made
C23_Witness ==
  \E p \in Procs :
    /\ IsGqc(proc[p])
    /\ Thrown(proc[p])
    /\ proc[p].attempts = maxAttempts
    /\ proc[p].netCalls = 3 * maxAttempts
    /\ proc[p].outcome[1].value = Error(TerminalMessage)

\* C29: the title batch is requested with ids = the anime of the 4 chosen
\* characters, in the order the characters were chosen; a title batch that
\* answers with a media list always yields a round; option i of the round is
\* the i-th chosen character with the title the batch returned for the i-th
\* requested id, or with a null title when the batch has no entry for it.
C29_TitlesPaired ==
  /\ [](\A p \in Procs :
          IsGqc(proc[p]) =>
            /\ proc[p].step = "titles" =>
                 /\ proc[p].ids = proc[p].originAnimeIds
                 /\ Len(proc[p].ids) = Len(proc[p].selectedCharsBase)
                 /\ \A i \in 1..Len(proc[p].ids) :
                      /\ proc[p].ids[i] \in Range(proc[p].selectedAnimeIds)
                      /\ proc[p].selectedCharsBase[i]
                           \in MapGet(proc[p].mediaMap, proc[p].ids[i])
            /\ Returned(proc[p]) =>
                 LET media == proc[p].resp[1].data[1]
                     characters == proc[p].outcome[1].value.characters
                 IN /\ Len(characters) = Len(proc[p].ids)
                    /\ \A i \in 1..Len(characters) :
                         /\ characters[i].id = proc[p].selectedCharsBase[i].id
                         /\ characters[i].animeTitle =
                              IF \E m \in media : m[1] = proc[p].ids[i]
                              THEN Some((CHOOSE m \in media : m[1] = proc[p].ids[i])[2])
                              ELSE Null)
  /\ [][ \A p \in Procs : \A resp \in EnvAsm(proc[p]) :
           ( /\ IsGqc(proc[p])
             /\ proc[p].step = "titles"
             /\ resp.kind = "ok"
             /\ resp.data # Null
             /\ Respond(p, resp) )
           => Returned(proc[p]') ]_vars

\* a round returned although the title batch had no entry for the first id:
\* the first option has a null title, the others the titles of their anime
C29_Witness ==
  \E p \in Procs :
    /\ IsGqc(proc[p])
    /\ Returned(proc[p])
    /\ IsInjective(proc[p].ids)
    /\ proc[p].ids # <<1, 2, 3, 4>>
    /\ \A m \in proc[p].resp[1].data[1] : m[1] # proc[p].ids[1]
    /\ proc[p].outcome[1].value.characters[1].animeTitle = Null
    /\ \A i \in 2..4 :
         proc[p].outcome[1].value.characters[i].animeTitle
           = Some(Title(proc[p].ids[i]))

\* C30: when the pool request is answered with an empty id list, the step
\* that handles the answer requests neither the character batch nor the
\* title batch; it adds one to attempts and either issues the pool request
\* of the next attempt or, on the third attempt, throws the terminal error;
\* it never throws a RateLimitError and sets no pause.
C30_EmptyPool ==
  [][ \A p \in Procs : \A resp \in EnvAsm(proc[p]) :
        ( /\ IsGqc(proc[p])
          /\ proc[p].step = "pool"
          /\ resp.kind = "ok"
          /\ resp.data = Some(<<>>)
          /\ Respond(p, resp) )
        => /\ proc[p]'.caught = "other"
           /\ proc[p]'.attempts = proc[p].attempts + 1
           /\ proc[p]'.step = "pool"
           /\ proc[p]'.ids = <<>>
           /\ proc[p]'.mediaMap = {}
           /\ proc[p]'.titleMap = {}
           /\ ~ThrownRateLimit(proc[p]')
           /\ retryAfterTimestamp' = retryAfterTimestamp
           /\ pauseTimers' = pauseTimers
           /\ IF proc[p].attempts + 1 = maxAttempts
              THEN /\ Thrown(proc[p]')
                   /\ proc[p]'.outcome[1].value = Error(TerminalMessage)
                   /\ proc[p]'.netCalls = proc[p].netCalls
              ELSE /\ proc[p]'.pc = "awaitNet"
                   /\ proc[p]'.netCalls = proc[p].netCalls + 1 ]_vars

\* three attempts, each ended by an empty pool: the terminal error after 3
\* network calls
C30_Witness ==
  \E p \in Procs :
    /\ IsGqc(proc[p])
    /\ Thrown(proc[p])
    /\ proc[p].outcome[1].value = Error(TerminalMessage)
    /\ proc[p].resp # Null
    /\ proc[p].resp[1].kind = "ok"
    /\ proc[p].resp[1].data = Some(<<>>)
    /\ proc[p].error = Some(Error("No anime found matching the criteria"))
    /\ proc[p].attempts = maxAttempts
    /\ proc[p].netCalls = 3

\* C31: every network call of getQuestionCharacters is the pool request of a
\* new attempt (the first, or the one after a failure that was counted), the
\* character batch issued on the answer to the pool request of the same
\* attempt, or the title batch issued on the answer to the character batch
\* of the same attempt once 4 characters with pairwise distinct ids are
\* selected; a round returned on the first attempt has cost 3 network calls.
C31_CallOrder ==
  /\ [](\A p \in Procs :
          (IsGqc(proc[p]) /\ Returned(proc[p]) /\ proc[p].attempts = 0)
          => proc[p].netCalls = 3)
  /\ [][ \A p \in Procs :
           (IsGqc(proc[p]') /\ proc[p]'.netCalls # proc[p].netCalls) =>
             /\ proc[p]'.netCalls = proc[p].netCalls + 1
             /\ proc[p]'.pc = "awaitNet"
             /\ \/ /\ proc[p]'.step = "pool"
                   /\ \/ proc[p].pc = "idle" /\ proc[p]'.attempts = 0
                      \/ /\ IsGqc(proc[p])
                         /\ proc[p]'.attempts = proc[p].attempts + 1
                \/ /\ proc[p]'.step = "chars"
                   /\ proc[p].step = "pool"
                   /\ proc[p].pc = "awaitNet"
                   /\ proc[p]'.attempts = proc[p].attempts
                \/ /\ proc[p]'.step = "titles"
                   /\ proc[p].step = "chars"
                   /\ proc[p].pc = "awaitNet"
                   /\ proc[p]'.attempts = proc[p].attempts
                   /\ Len(proc[p]'.selectedCharsBase) = 4
                   /\ IsInjective([i \in 1..4 |-> proc[p]'.selectedCharsBase[i].id]) ]_vars

\* a round returned by the first attempt
C31_Witness ==
  \E p \in Procs :
    /\ IsGqc(proc[p])
    /\ Returned(proc[p])
    /\ proc[p].attempts = 0
    /\ proc[p].step = "titles"
    /\ proc[p].netCalls = 3
    /\ remainingRequests = RATE_LIMIT_MAX - 3

---------------------------------------------------------------------------
(* Claims checked under SpecConc *)

\* the call of p completed successfully in this step, its response without
\* the x-ratelimit-remaining header
CompletedPlain(p) ==
  /\ proc[p].pc = "awaitNet"
  /\ proc[p]'.resp # Null
  /\ proc[p]'.resp[1].kind = "ok"
  /\ proc[p]'.resp[1].remaining = Null

\* C15: whatever else is in flight, each successful completion without the
\* x-ratelimit-remaining header lowers remainingRequests by exactly one
\* (never below 0), and no step but a completion or a timer callback changes
\* it: after K such completions it is max(0, initial - K).
C15_NoLostDecrement ==
  [][ /\ \A p \in Procs :
           CompletedPlain(p) => remainingRequests' = Max(0, remainingRequests - 1)
      /\ remainingRequests' # remainingRequests =>
           \/ fired' # "none"
           \/ \E p \in Procs : /\ proc[p].pc = "awaitNet"
                               /\ proc[p]'.resp # Null
                               /\ proc[p]'.resp[1].kind = "ok" ]_vars

\* two calls of fetchTopAnimeIds for one key that both went to the network,
\* so the second was issued before the first completed; both completed
\* without the header, and both decrements are counted
C15_Witness ==
  \E p \in Procs :
    /\ proc[p].fn = "fetchTopAnimeIds"
    /\ Returned(proc[p])
    /\ proc[p].netCalls = 1
    /\ proc[p].resp[1].remaining = Null
    /\ calls = 2
    /\ animeDetailsCache = {}
    /\ remainingRequests = RATE_LIMIT_MAX - 2

\* C16: the value stored under a key of either cache never changes and is
\* never removed, in every interleaving of concurrent fetchers.
C16_CacheWriteOnce ==
  [][ /\ topAnimeIdsCache \subseteq topAnimeIdsCache'
      /\ animeDetailsCache \subseteq animeDetailsCache' ]_vars

\* C39: once a request of a fetcher for a key has succeeded, no other
\* invocation of that fetcher for the same key has issued a request of its
\* own, also when the invocations were in flight at the same time.
C39_OneRequestPerKey ==
  \A p, q \in Procs :
    ( /\ p # q
      /\ IsFetcher(proc[p])
      /\ proc[q].fn = proc[p].fn
      /\ proc[q].arg = proc[p].arg
      /\ Returned(proc[p])
      /\ proc[p].netCalls = 1 )
    => proc[q].netCalls = 0

---------------------------------------------------------------------------
(* Claims checked under SpecPool *)

\* base size and increment of a difficulty
PoolTier(difficulty) ==
  IF difficulty = "easy" THEN <<50, 25>>
  ELSE IF difficulty = "medium" THEN <<100, 50>>
  ELSE <<150, 75>>

\* C27: the pool size of an invocation is
\* min(base + floor(round / 5) * increment, 500) for the tier of its
\* difficulty; it lies between base and 500, and no earlier round has a
\* larger one.
C27_PoolSize ==
  \A p \in Procs :
    IsGqc(proc[p]) =>
      LET round == proc[p].arg.round
          tier == PoolTier(proc[p].arg.difficulty)
          uncapped == tier[1] + (round \div 5) * tier[2]
      IN /\ proc[p].poolSize = IF uncapped < 500 THEN uncapped ELSE 500
         /\ proc[p].poolSize >= tier[1]
         /\ proc[p].poolSize <= 500
         /\ \A earlier \in 0..round :
              getPoolSize(earlier, proc[p].arg.difficulty) <= proc[p].poolSize

\* round 90 on easy: 50 + 18 * 25 reaches the cap
C27_Witness ==
  \E p \in Procs :
    /\ IsGqc(proc[p])
    /\ proc[p].arg.difficulty = "easy"
    /\ proc[p].arg.round = 90
    /\ proc[p].poolSize = 500
    /\ proc[p].pc = "awaitNet"

---------------------------------------------------------------------------
(* Claims checked under SpecStored *)

\* C32: no step of getQuestionCharacters, its call included, changes
\* topAnimeIdsCache or animeDetailsCache, whether it ends in a round, a retry
\* or an error; and whatever the caches hold, the call issues the pool
\* request, and a round is returned only after 3 network calls of one attempt.
C32_CachesUntouched ==
  /\ [](\A p \in Procs :
          (IsGqc(proc[p]) /\ Returned(proc[p]))
          => proc[p].netCalls >= 3 + proc[p].attempts)
  /\ [][ \A p \in Procs :
           (IsGqc(proc[p]') /\ proc[p]' # proc[p]) =>
             /\ topAnimeIdsCache' = topAnimeIdsCache
             /\ animeDetailsCache' = animeDetailsCache
             /\ proc[p].pc = "idle" =>
                  /\ proc[p]'.pc = "awaitNet"
                  /\ proc[p]'.step = "pool"
                  /\ proc[p]'.netCalls = 1 ]_vars

\* a round returned, and an invocation failed for good, with both caches
\* holding what they held at the start, the pool size among the keys
C32_Witness ==
  \E p \in Procs :
    /\ IsGqc(proc[p])
    /\ Returned(proc[p])
    /\ MapHas(topAnimeIdsCache, proc[p].poolSize)
    /\ animeDetailsCache # {}

C32_WitnessFailed ==
  \E p \in Procs :
    /\ IsGqc(proc[p])
    /\ Thrown(proc[p])
    /\ MapHas(topAnimeIdsCache, proc[p].poolSize)
    /\ animeDetailsCache # {}

---------------------------------------------------------------------------
(* Claims checked under SpecTimers *)

\* C37: whenever remainingRequests is not RATE_LIMIT_MAX, a timer of
\* setRateLimitPause or the 60 s timer of updateRateLimitState is pending;
\* and with time passing and due timers running, remainingRequests is
\* RATE_LIMIT_MAX again later.
C37_ResetPending ==
  /\ [](remainingRequests # RATE_LIMIT_MAX
          => pauseTimers # EmptyBag \/ resetTimers # EmptyBag)
  /\ (remainingRequests # RATE_LIMIT_MAX) ~> (remainingRequests = RATE_LIMIT_MAX)

\* a success during a pause: the 60 s timer is not scheduled, the pause timer
\* alone is pending
C37_Witness ==
  /\ remainingRequests = RATE_LIMIT_MAX - 1
  /\ retryAfterTimestamp # Null
  /\ resetTimers = EmptyBag
  /\ pauseTimers # EmptyBag
  /\ \E p \in Procs : Returned(proc[p])

---------------------------------------------------------------------------
(* Claims checked under SpecGame *)

\* C33: when the question fetch that handleRateLimitPauseComplete awaits
\* after the countdown is rate-limited itself, the game stays in the
\* rate-limit pause: isRateLimitPauseActive remains true and the pause screen
\* stays shown
C33_StaysPaused ==
  (game.last.handler = "handleRateLimitPauseComplete"
     /\ game.last.error = "RateLimitError")
  => (game.isRateLimitPauseActive /\ game.showPauseScreen)

\* the step of handleHint after its await, for the invocation p
HintResumes(p) == game.cont[p].kind = "hint" /\ GameContinue(p)

HintFound(p) == Returned(proc[p]) /\ validHints(proc[p].outcome[1].value) # {}

\* C34: handleHint consumes the hint lifeline, recording the round, exactly
\* when fetchAnimeDetails returned details with at least one valid hint; after
\* a RateLimitError, another error or details without a hint the lifeline is
\* still available and its usage round unset; and nothing else takes the
\* lifeline away
C34_HintLifeline ==
  [][/\ \A p \in Procs :
          HintResumes(p) =>
            IF HintFound(p)
            THEN /\ ~game'.lifelines.hint
                 /\ game'.lifelineUsage.hint = Some(game.currentRound)
            ELSE /\ game'.lifelines.hint
                 /\ game'.lifelineUsage.hint = Null
     /\ (game.lifelines.hint /\ ~game'.lifelines.hint)
          => \E p \in Procs : HintResumes(p) /\ HintFound(p)]_vars

\* the fetch of the hint was rate-limited and the lifeline is still there
C34_Witness ==
  /\ game.last.handler = "handleHint"
  /\ game.last.error = "RateLimitError"
  /\ game.lifelines.hint
  /\ game.lifelineUsage.hint = Null

\* the details had no hint to give
C34_WitnessNoHint ==
  /\ game.last.handler = "handleHint"
  /\ game.last.error = "noHint"
  /\ game.lifelines.hint

\* a hint was shown and the lifeline is used
C34_WitnessUsed ==
  /\ game.last.handler = "handleHint"
  /\ game.last.error = "none"
  /\ ~game.lifelines.hint
  /\ game.lifelineUsage.hint = Some(game.currentRound)

\* C40: when the timeout of a correct answer runs and the answer was given
\* with neither a manual pause nor a rate-limit pause pending, currentRound
\* goes up by exactly 1 and the score by calculateScore(), once
C40_CorrectAdvancesOnce ==
  [][\A to \in game.timeouts :
       (/\ to.kind = "correct"
        /\ ~to.seen.pendingPause
        /\ ~to.seen.isRateLimitPausePending
        /\ TimeoutFire(to))
       => /\ game'.currentRound = game.currentRound + 1
          /\ game'.score = game.score + to.seen.scoreAdd]_vars

============================================================================
